---- MODULE Spec2Model ----
(***************************************************************************)
(* State-machine model of the TradingCrypto decision engine.               *)
(*                                                                         *)
(* Five parts of the repository are modelled, selected by `program`:      *)
(*   "backtest" : the backtest ledger MockTradeManager (backtester.py),    *)
(*                driven bar by bar by Backtester._run_trade_cycle: the    *)
(*                global current_bar is replaced, check_for_close runs,    *)
(*                the market is analysed on the bars before the bar, the   *)
(*                strategies are asked in list order and the order of      *)
(*                the first one that signals is placed;                    *)
(*   "live"     : the money-based position manager PnLManager              *)
(*                (core/pnl_manager.py) together with the gateway it       *)
(*                closes positions through (core/trade_manager.py);        *)
(*   "watch"    : the indicator library (core/symbol_data.py and its       *)
(*                backtest double in backtester.py), the market watch      *)
(*                (market_watch/global_vwap_watch.py) and the strategy     *)
(*                VwapTrendContinuation, applied to one window of bars;    *)
(*   "main"     : the live loop main_loop (main.py) from its start to its  *)
(*                stop, with the orders its strategies place through       *)
(*                TradeManager.place_order and the trade log;              *)
(*   "fetch"    : one call of MockSymbolData.get_ohlc_bars at any cursor.  *)
(*                                                                         *)
(* Prices and profits are fixed-point numbers in tenths: 1.5 is 15,        *)
(* -10.0 is -100, the price 100.0 is 1000.  For every value the model      *)
(* draws, the comparisons of the code on the corresponding floats give     *)
(* the same result as the integer comparisons below.                       *)
(***************************************************************************)
EXTENDS Integers, Sequences, FiniteSets, TLC

VARIABLES
    program,              \* which of the five parts this behaviour runs
    pc,                   \* backtest: the phase of _run_trade_cycle
    data_rows,            \* backtest: len(self.data), the rows of the data
    cycle_symbol,         \* backtest: the symbol argument of the cycle
    strategy_idx,         \* backtest: position of the loop over self.strategies
    current_idx,          \* backtest: MockSymbolData.current_idx
    window,               \* history: the slice get_ohlc_bars returned last
    bar_count,            \* history: the count that call was given (0: none)
    positions_for_symbol, \* backtest: the tuple the cycle hands to strategies
    phases,               \* history: the phases run so far for current_bar
    \* ---- backtester.py : MockTradeManager and the global current_bar
    current_bar,          \* module global current_bar (NoBar models None)
    open_positions,       \* MockTradeManager.open_positions
    trades,               \* MockTradeManager.trades
    closed_trades_count,  \* MockTradeManager.closed_trades_count
    tp_price_diff,        \* MockTradeManager.tp_price_diff
    sl_price_diff,        \* MockTradeManager.sl_price_diff
    lastOrder,            \* history: the last call, when it was a place_order
    closedLog,            \* history: one entry per position closed
    \* ---- core/pnl_manager.py : PnLManager, and the gateway
    peak_profits,         \* PnLManager.peak_profits
    TAKE_PROFIT,          \* PnLManager.TAKE_PROFIT
    broker,               \* gateway: ticket -> "new" | "open" | "closed"
    report,               \* the argument of the last check_and_close_positions
    closeReqs,            \* close_position calls issued by the last call
    everReached,          \* history: tickets whose profit has reached activation
    scen,                 \* history: progress of each ticket along Scenario
    \* ---- the indicator library, the market watch and the strategy
    symbol_data,          \* watch: the class of self.symbol_data
    df,                   \* watch: the DataFrame get_ohlc_bars returned
    vwap_array,           \* watch: the result of calculate_vwap(df)
    support_resistance,   \* watch: calculate_support_resistance(df)
    market_state,         \* watch: the result of analyze_market
    entry_args,           \* history: the arguments of check_for_entry
    signal,               \* watch: the result of check_for_entry
    \* ---- main.py : main_loop, and TradeManager.place_order under it
    TRADING_SYMBOLS,      \* config.settings.TRADING_SYMBOLS
    loop_pc,              \* main: the place main_loop has reached
    mt5_connection,       \* main: "never" | "up" | "down"
    cycles,               \* main: the cycles begun so far
    symbol_idx,           \* main: position of the loop over TRADING_SYMBOLS
    loop_strategy,        \* main: position of the loop over strategies
    order_result,         \* main: the result of an order_send not yet logged
    placed,               \* history: how the last place_order call ended
    stop                  \* history: why and where main_loop stopped

ledgerVars == <<current_bar, open_positions, trades, closed_trades_count,
                tp_price_diff, sl_price_diff, lastOrder, closedLog>>
pnlVars == <<peak_profits, TAKE_PROFIT, broker, report, closeReqs,
             everReached, scen>>
cycleVars == <<strategy_idx, current_idx, window, bar_count,
               positions_for_symbol, phases>>
watchVars == <<symbol_data, df, vwap_array, support_resistance, market_state,
               entry_args, signal>>
mainVars == <<TRADING_SYMBOLS, loop_pc, mt5_connection, cycles, symbol_idx,
              loop_strategy, order_result, placed, stop>>
vars == <<program, pc, data_rows, cycle_symbol, cycleVars, ledgerVars, pnlVars,
          watchVars, mainVars>>

----------------------------------------------------------------------------
(* Bounds of the model *)

MaxBars == 3          \* bars replayed in one behaviour
MaxEntries == 2       \* accepted orders in one behaviour
MaxTickets == 1       \* positions the gateway ever opens
MaxWindow == 3        \* bars drawn freely in a window of the market watch
MaxCycles == 2        \* cycles of main_loop in one behaviour
MaxData == 3          \* rows of the data a single get_ohlc_bars call slices
MaxObservations == 3  \* reports of one position followed through PnLManager

(* Program constants (tenths) *)

MT5_MAGIC_NUMBER == 20240901
STRATEGY_MAGIC == MT5_MAGIC_NUMBER + 1
DEFAULT_VOLUME == 1               \* 0.1 lot
MARKET_WATCH_BAR_COUNT == 300
TP_POINTS_FOR_SCALPING == 15      \* 1.5
SL_POINTS == -100                 \* -10.0
TAKE_PROFIT_USD == 10             \* 1.0
STOP_LOSS_USD == -100             \* -10.0
TRAILING_ACTIVATION_USD == 10     \* 1.0
TRAILING_STEP_USD == 2            \* 0.20
BREAKEVEN_THRESHOLD == 5          \* 0.5

(* Input domains *)

Symbols == {"BTCUSD", "ETHUSD"}
Magics == {MT5_MAGIC_NUMBER, STRATEGY_MAGIC}
\* self.strategies: each strategy is known to the cycle by its magic
strategies == <<STRATEGY_MAGIC, MT5_MAGIC_NUMBER>>
Sides == {"buy", "sell"}
Prices == {900, 1000, 1005, 1016}
LedgerConfigs == {<<TP_POINTS_FOR_SCALPING, SL_POINTS>>, <<0, 0>>}
Profits == {-100, 5, 11, 12, 15}
TakeProfits == {TAKE_PROFIT_USD, 3 * TAKE_PROFIT_USD}
Tickets == 1..MaxTickets

NoBar == [name |-> 0, close |-> 0]

Max(a, b) == IF a >= b THEN a ELSE b
Min(a, b) == IF a <= b THEN a ELSE b

----------------------------------------------------------------------------
(* backtester.py : MockTradeManager *)

\* The fields place_order stores; id and last_price are history fields.
Real(p) == [symbol |-> p.symbol, type |-> p.type, volume |-> p.volume,
            comment |-> p.comment, magic |-> p.magic,
            entry_price |-> p.entry_price, entry_time |-> p.entry_time]

NoDuplicateGuard(magic) == FALSE

SymbolDuplicateGuard(symbol, magic) ==
    \E i \in 1..Len(open_positions) :
        open_positions[i].magic = magic /\ open_positions[i].symbol = symbol

\* line 44: any(p['magic'] == magic for p in self.open_positions)
HasOpenMagic(magic) ==
    \E i \in 1..Len(open_positions) : open_positions[i].magic = magic

PreviousBarEntry(symbol, side, volume, comment, magic) ==
    [symbol |-> symbol, type |-> IF side = "buy" THEN 1 ELSE 0,
     volume |-> volume, comment |-> comment, magic |-> magic,
     entry_price |-> current_bar.close, entry_time |-> current_bar.name - 1,
     id |-> Len(trades) + 1, last_price |-> <<>>]

\* lines 46-48: the position and the log record of an accepted order
NewPosition(symbol, side, volume, comment, magic) ==
    [symbol |-> symbol, type |-> IF side = "buy" THEN 1 ELSE 0,
     volume |-> volume, comment |-> comment, magic |-> magic,
     entry_price |-> current_bar.close, entry_time |-> current_bar.name,
     id |-> Len(trades) + 1, last_price |-> <<>>]

EntryRecord(side, magic) ==
    [kind |-> "Entry", side |-> side, time |-> current_bar.name,
     price |-> current_bar.close, magic |-> magic]

PlaceAndCheck(symbol, side, volume, comment, magic) ==
    IF HasOpenMagic(magic) \/ current_bar = NoBar
    THEN UNCHANGED <<open_positions, trades>>
    ELSE IF 0 >= tp_price_diff \/ 0 <= sl_price_diff
         THEN /\ open_positions' = open_positions
              /\ trades' = trades \o
                     <<EntryRecord(side, magic),
                       [kind |-> "Close", reason |-> "TP",
                        time |-> current_bar.name,
                        entry |-> current_bar.close,
                        close |-> current_bar.close]>>
         ELSE /\ open_positions' =
                    Append(open_positions,
                           NewPosition(symbol, side, volume, comment, magic))
              /\ trades' = Append(trades, EntryRecord(side, magic))

place_order(symbol, side, volume, comment, magic) ==
    IF HasOpenMagic(magic)
    THEN UNCHANGED <<open_positions, trades>>
    ELSE IF current_bar # NoBar
         THEN /\ open_positions' =
                    Append(open_positions,
                           NewPosition(symbol, side, volume, comment, magic))
              /\ trades' = Append(trades, EntryRecord(side, magic))
         ELSE UNCHANGED <<open_positions, trades>>

LongOnlyDiff(pos, current_price) == current_price - pos.entry_price

\* lines 54-55
PnlPriceDiff(pos, current_price) ==
    IF pos.type = 1 THEN current_price - pos.entry_price
    ELSE pos.entry_price - current_price

\* lines 57-67: take-profit is tested first, stop-loss second
LedgerCloseReason(pnl_price_diff) ==
    IF pnl_price_diff >= tp_price_diff THEN "TP"
    ELSE IF pnl_price_diff <= sl_price_diff THEN "SL"
    ELSE "open"

\* lines 52-67: the positions the loop collects in closed_positions
ClosedPositions(current_price, symbol) ==
    SelectSeq(open_positions,
              LAMBDA pos : /\ pos.symbol = symbol
                           /\ LedgerCloseReason(PnlPriceDiff(pos, current_price)) # "open")

\* lines 58, 64: the record names the bar current_bar holds during the call,
\* which is the bar the cycle has just stored in it (line 164)
CloseRecord(pos, current_price) ==
    [kind |-> "Close",
     reason |-> LedgerCloseReason(PnlPriceDiff(pos, current_price)),
     time |-> current_bar'.name, entry |-> pos.entry_price,
     close |-> current_price]

\* list.remove(pos): drops the first element equal to pos
RECURSIVE ListRemove(_, _)
ListRemove(list, pos) ==
    IF list = <<>> THEN <<>>
    ELSE IF Real(Head(list)) = Real(pos) THEN Tail(list)
    ELSE <<Head(list)>> \o ListRemove(Tail(list), pos)

KeepAll(list, closed) == list

\* line 68: for pos in closed_positions: self.open_positions.remove(pos)
RECURSIVE RemoveClosed(_, _)
RemoveClosed(list, closed) ==
    IF closed = <<>> THEN list
    ELSE RemoveClosed(ListRemove(list, Head(closed)), Tail(closed))

\* history: the price of the last check a position of this symbol survived
NotePrice(pos, current_price, symbol) ==
    IF pos.symbol = symbol
    THEN [pos EXCEPT !.last_price = <<current_price>>]
    ELSE pos

\* history: what is known of a position at the check that closes it
ClosedEntry(pos, current_price) ==
    [id |-> pos.id, symbol |-> pos.symbol, magic |-> pos.magic,
     type |-> pos.type, entry_price |-> pos.entry_price,
     entry_time |-> pos.entry_time,
     last_price |-> pos.last_price, close_price |-> current_price,
     reason |-> LedgerCloseReason(PnlPriceDiff(pos, current_price))]

TakeProfitsOnly(closed_positions, current_price) ==
    Len(SelectSeq(closed_positions,
                  LAMBDA pos :
                      LedgerCloseReason(PnlPriceDiff(pos, current_price)) = "TP"))

\* lines 59 and 65: closed_trades_count += 1 with every Close record
CountClosed(closed_positions, current_price) == Len(closed_positions)

check_for_close(current_price, symbol) ==
    LET closed_positions == ClosedPositions(current_price, symbol)
        n == Len(closed_positions)
        left == RemoveClosed(open_positions, closed_positions)
    IN  /\ trades' = trades \o
               [i \in 1..n |-> CloseRecord(closed_positions[i], current_price)]
        /\ closed_trades_count' =
               closed_trades_count + CountClosed(closed_positions, current_price)
        /\ open_positions' =
               [i \in 1..Len(left) |-> NotePrice(left[i], current_price, symbol)]
        /\ closedLog' = closedLog \o
               [i \in 1..n |-> ClosedEntry(closed_positions[i], current_price)]

----------------------------------------------------------------------------
(* backtester.py : MockSymbolData.get_ohlc_bars, as the rows it slices *)

\* an empty DataFrame, and the slice iloc[start:stop] of the data
NoWindow == [start |-> 0, stop |-> 0]

\* len(self.data_df): in a backtest the rows before row
\* MARKET_WATCH_BAR_COUNT and the bars run_backtest replays after them
DataRows == data_rows

\* the lengths of the data of a backtest: none (the file could not be
\* loaded), too short for a single step, one bar to replay, MaxBars bars
DataLengths ==
    {0, MARKET_WATCH_BAR_COUNT - 1, MARKET_WATCH_BAR_COUNT,
     MARKET_WATCH_BAR_COUNT + 1, MARKET_WATCH_BAR_COUNT + MaxBars}

\* data_df.iloc[start_idx:end_idx]: the bounds are cut to the data
Slice(start_idx, end_idx) ==
    [start |-> Min(start_idx, DataRows), stop |-> Min(end_idx, DataRows)]

PeekBars(count) ==
    IF current_idx < 0 THEN NoWindow
    ELSE Slice(Max(0, current_idx - count + 1), current_idx + 2)

WholeCount(count) ==
    IF current_idx < 0 THEN NoWindow
    ELSE Slice(current_idx - count + 1, current_idx + 1)

\* lines 77-83: rows max(0, current_idx - count + 1) .. current_idx of a
\* data frame that has the required columns
get_ohlc_bars(count) ==
    IF current_idx < 0 THEN NoWindow
    ELSE Slice(Max(0, current_idx - count + 1), current_idx + 1)

\* the number of rows of a slice, and the index of its last row
NumRows(w) == w.stop - w.start
LastRow(w) == w.stop - 1

\* the cursors and counts of single calls: before the data, inside it and
\* past its end
Cursors == -2..(MaxData + 1)
Counts == 1..(MaxData + 1)

\* one call of MockSymbolData.get_ohlc_bars at a cursor of any value
GetOhlcBars ==
    /\ program = "fetch"
    /\ bar_count = 0
    /\ \E count \in Counts :
          /\ window' = get_ohlc_bars(count)
          /\ bar_count' = count
    /\ UNCHANGED <<pc, cycle_symbol, strategy_idx, current_idx,
                   positions_for_symbol, phases>>
    /\ UNCHANGED <<program, data_rows, ledgerVars, pnlVars, watchVars,
                   mainVars>>

----------------------------------------------------------------------------
(* Steps of the backtest program: Backtester.run_backtest and              *)
(* Backtester._run_trade_cycle, one bar                                    *)

NumEntries == Cardinality({i \in 1..Len(trades) : trades[i].kind = "Entry"})

\* run_backtest lines 204-211: the bar named n is row i of the data, the
\* first replayed bar being row MARKET_WATCH_BAR_COUNT
BarIndex(n) == MARKET_WATCH_BAR_COUNT + n - 1

Phase(step, k) == [step |-> step, strategy |-> k]

SkipAnalysis(phase) ==
    IF phase = "close" THEN "entry" ELSE "close"

\* _run_trade_cycle: 1. PnL check/close (166-168), 2. indicator
\* calculation (170-171), 3. strategy check/entry (173-188)
NextPhase(phase) ==
    IF phase = "close" THEN "analyze"
    ELSE IF phase = "analyze" THEN "entry"
    ELSE "close"

NoBreak(k) == k + 1

\* line 188: break leaves the loop over self.strategies
AfterSignal(k) == Len(strategies) + 1

LoopWithoutRevert(next) ==
    IF next <= Len(strategies)
    THEN /\ strategy_idx' = next
         /\ pc' = pc
         /\ current_idx' = current_idx
    ELSE /\ strategy_idx' = 0
         /\ pc' = NextPhase(pc)
         /\ current_idx' = current_idx

\* lines 180, 191: the loop goes on to strategy `next`, or it is over and
\* the index is reverted
LoopTo(next) ==
    IF next <= Len(strategies)
    THEN /\ strategy_idx' = next
         /\ pc' = pc
         /\ current_idx' = current_idx
    ELSE /\ strategy_idx' = 0
         /\ pc' = NextPhase(pc)
         /\ current_idx' = current_idx - 1

\* run_backtest line 195: the symbol is an argument of the run, the same for
\* all its cycles (by default "BTCUSD"); a behaviour may go on with cycles
\* of a run on another symbol, on the same ledger, once
RunSymbols == IF cycle_symbol = "BTCUSD" THEN Symbols ELSE {cycle_symbol}

\* run_backtest lines 209-214 and _run_trade_cycle lines 163-168:
\* current_idx = i - 1, current_bar = current_bar_data (the next bar of the
\* data, bar names increasing), then check_for_close(current_bar.close,
\* symbol); the symbol is that of the run_backtest call the cycle belongs to
CycleClose ==
    /\ program = "backtest"
    /\ pc = "close"
    /\ BarIndex(current_bar.name + 1) < DataRows
    /\ \E c \in Prices, symbol \in RunSymbols :
          /\ current_bar' = [name |-> current_bar.name + 1, close |-> c]
          /\ cycle_symbol' = symbol
          /\ check_for_close(c, symbol)
    /\ current_idx' = BarIndex(current_bar.name + 1) - 1
    /\ phases' = <<Phase("close", 0)>>
    /\ pc' = NextPhase(pc)
    /\ lastOrder' = <<>>
    /\ UNCHANGED <<strategy_idx, window, bar_count, positions_for_symbol>>
    /\ UNCHANGED <<tp_price_diff, sl_price_diff>>
    /\ UNCHANGED <<program, data_rows, pnlVars, watchVars, mainVars>>

PositionsBeforeClose(all_positions, symbol) ==
    SelectSeq(all_positions \o closedLog, LAMBDA p : p.symbol = symbol)

\* lines 177-178: the positions of the symbol in trade_manager.open_positions
PositionsForSymbol(all_positions, symbol) ==
    SelectSeq(all_positions, LAMBDA p : p.symbol = symbol)

\* lines 170-178: analyze_market(symbol) fetches its window with the index
\* still at i - 1; then the index is advanced for the strategies and the
\* positions of the symbol are collected for them
CycleAnalyze ==
    /\ program = "backtest"
    /\ pc = "analyze"
    /\ window' = get_ohlc_bars(MARKET_WATCH_BAR_COUNT)
    /\ bar_count' = MARKET_WATCH_BAR_COUNT
    /\ current_idx' = current_idx + 1
    /\ positions_for_symbol' = PositionsForSymbol(open_positions, cycle_symbol)
    /\ strategy_idx' = 1
    /\ phases' = Append(phases, Phase("analyze", 0))
    /\ pc' = NextPhase(pc)
    /\ UNCHANGED <<cycle_symbol, ledgerVars>>
    /\ UNCHANGED <<program, data_rows, pnlVars, watchVars, mainVars>>

\* lines 180-188, the strategy at hand signals: place_order for the cycle's
\* symbol with the strategy's magic, then break
CycleEntry ==
    /\ program = "backtest"
    /\ pc = "entry"
    /\ NumEntries < MaxEntries
    /\ LET magic == strategies[strategy_idx]
       IN  \E side \in Sides :
          /\ place_order(cycle_symbol, side, DEFAULT_VOLUME, side, magic)
          /\ lastOrder' =
                <<[symbol |-> cycle_symbol, magic |-> magic,
                   pair_open |-> SymbolDuplicateGuard(cycle_symbol, magic),
                   bar_set |-> current_bar # NoBar,
                   appended |-> /\ Len(open_positions') = Len(open_positions) + 1
                                /\ SubSeq(open_positions', 1, Len(open_positions))
                                       = open_positions,
                   untouched |-> /\ open_positions' = open_positions
                                 /\ trades' = trades]>>
    /\ phases' = phases \o <<Phase("strategy", strategy_idx),
                             Phase("order", strategy_idx)>>
    /\ LoopTo(AfterSignal(strategy_idx))
    /\ UNCHANGED <<closed_trades_count, closedLog, window, bar_count>>
    /\ UNCHANGED <<current_bar, cycle_symbol, tp_price_diff, sl_price_diff>>
    /\ UNCHANGED positions_for_symbol
    /\ UNCHANGED <<program, data_rows, pnlVars, watchVars, mainVars>>

\* lines 180-183, the strategy at hand gives no signal: the loop goes on
CycleNoSignal ==
    /\ program = "backtest"
    /\ pc = "entry"
    /\ phases' = Append(phases, Phase("strategy", strategy_idx))
    /\ LoopTo(strategy_idx + 1)
    /\ lastOrder' = <<>>
    /\ UNCHANGED <<current_bar, cycle_symbol, open_positions, trades,
                   closed_trades_count, tp_price_diff, sl_price_diff, closedLog,
                   window, bar_count, positions_for_symbol>>
    /\ UNCHANGED <<program, data_rows, pnlVars, watchVars, mainVars>>

\* run_backtest lines 199-201 and 216-224: with no data the run returns at
\* once; otherwise, when range(start_index, len(self.data)) is used up, the
\* summary is printed from the ledger as the last step left it and the run
\* is over; nothing of the state changes
RunIsOver ==
    /\ program = "backtest"
    /\ pc = "close"
    /\ ~ (BarIndex(current_bar.name + 1) < DataRows)

----------------------------------------------------------------------------
(* core/pnl_manager.py : PnLManager.check_and_close_positions *)

Scenario == <<5, 12, 15, 11>>

TicketsOf(positions) == {positions[i].ticket : i \in 1..Len(positions)}

KeepStale(peaks, positions) == peaks

DropReported(peaks, positions) ==
    [t \in DOMAIN peaks \ TicketsOf(positions) |-> peaks[t]]

\* lines 39-45: entries of tickets absent from the report are deleted
Cleanup(peaks, positions) ==
    [t \in DOMAIN peaks \cap TicketsOf(positions) |-> peaks[t]]

OverwritePeak(peaks, ticket, current_profit) ==
    [t \in DOMAIN peaks \cup {ticket} |->
        IF t = ticket THEN current_profit ELSE peaks[t]]

FirstProfitOnly(peaks, ticket, current_profit) ==
    [t \in DOMAIN peaks \cup {ticket} |->
        IF t = ticket /\ ticket \notin DOMAIN peaks
        THEN current_profit ELSE peaks[t]]

\* lines 54-55: peak_profits[ticket] = max(peak_profits.get(ticket, -inf), profit)
UpdatePeak(peaks, ticket, current_profit) ==
    [t \in DOMAIN peaks \cup {ticket} |->
        IF t = ticket
        THEN IF ticket \in DOMAIN peaks
             THEN Max(peaks[ticket], current_profit)
             ELSE current_profit
        ELSE peaks[t]]

TrailFirstRule(current_profit, current_peak) ==
    IF /\ current_profit >= TRAILING_ACTIVATION_USD
       /\ current_profit <= current_peak - TRAILING_STEP_USD
    THEN "trail"
    ELSE IF current_profit >= TAKE_PROFIT THEN "tp"
    ELSE IF current_profit <= STOP_LOSS_USD THEN "sl"
    ELSE "none"

NoStepRule(current_profit, current_peak) ==
    IF current_profit >= TAKE_PROFIT THEN "tp"
    ELSE IF current_profit <= STOP_LOSS_USD THEN "sl"
    ELSE IF /\ current_profit >= TRAILING_ACTIVATION_USD
            /\ current_profit < current_peak
         THEN "trail"
    ELSE "none"

\* lines 59-75: the close rule that fires for a position, if any
CloseRule(current_profit, current_peak) ==
    IF current_profit >= TAKE_PROFIT THEN "tp"
    ELSE IF current_profit <= STOP_LOSS_USD THEN "sl"
    ELSE IF /\ current_profit >= TRAILING_ACTIVATION_USD
            /\ current_profit <= current_peak - TRAILING_STEP_USD
         THEN "trail"
    ELSE "none"

Abs(x) == IF x >= 0 THEN x ELSE 0 - x

BreakEvenCloses(current_profit, rule) ==
    IF rule = "none" /\ Abs(current_profit) <= BREAKEVEN_THRESHOLD
    THEN "breakeven"
    ELSE rule

\* lines 77-82: reached when no rule has fired; inside the threshold the
\* body is `pass`
BreakEven(current_profit, rule) ==
    IF rule = "none" /\ Abs(current_profit) <= BREAKEVEN_THRESHOLD
    THEN "none"
    ELSE rule

\* lines 48-82: the loop over the report; reqs are the close_position calls
RECURSIVE MainLoop(_, _)
MainLoop(positions, peaks) ==
    IF positions = <<>> THEN [peaks |-> peaks, reqs |-> <<>>]
    ELSE LET position == Head(positions)
             ticket == position.ticket
             current_profit == position.profit
             updated == UpdatePeak(peaks, ticket, current_profit)
             rule == BreakEven(current_profit,
                               CloseRule(current_profit, updated[ticket]))
             rest == MainLoop(Tail(positions), updated)
         IN  [peaks |-> rest.peaks,
              reqs |-> (IF rule = "none" THEN <<>>
                        ELSE <<[ticket |-> ticket, reason |-> rule,
                                profit |-> current_profit]>>) \o rest.reqs]

Outcome(reqs, t) ==
    IF \E i \in 1..Len(reqs) : reqs[i].ticket = t
    THEN (CHOOSE r \in {reqs[i] : i \in 1..Len(reqs)} : r.ticket = t).reason
    ELSE "none"

ProfitOf(positions, t) ==
    (CHOOSE p \in {positions[i] : i \in 1..Len(positions)} : p.ticket = t).profit

\* history: how far the observations of ticket t follow Scenario, with the
\* outcome of each step; n = -1 once they have left it
ScenStep(old, positions, reqs, t) ==
    IF t \notin TicketsOf(positions) THEN
        IF broker[t] = "new" THEN old ELSE [n |-> -1, out |-> <<>>]
    ELSE IF /\ old.n >= 0 /\ old.n < Len(Scenario)
            /\ ProfitOf(positions, t) = Scenario[old.n + 1]
         THEN [n |-> old.n + 1, out |-> Append(old.out, Outcome(reqs, t))]
         ELSE [n |-> -1, out |-> <<>>]

\* send_ok[t] is the outcome of mt5.order_send inside close_position
\* (trade_manager.py lines 113-121) for the request on ticket t
check_and_close_positions(positions, send_ok) ==
    IF positions.is_none
    THEN \* lines 34-37
         /\ peak_profits' = <<>>
         /\ closeReqs' = <<>>
         /\ UNCHANGED <<broker, everReached>>
         /\ scen' = [t \in Tickets |->
                        IF broker[t] = "new" THEN scen[t]
                        ELSE [n |-> -1, out |-> <<>>]]
    ELSE LET r == MainLoop(positions.positions,
                           Cleanup(peak_profits, positions.positions))
         IN  /\ peak_profits' = r.peaks
             /\ closeReqs' =
                    [i \in 1..Len(r.reqs) |->
                        [ticket |-> r.reqs[i].ticket, reason |-> r.reqs[i].reason,
                         profit |-> r.reqs[i].profit,
                         done |-> send_ok[r.reqs[i].ticket]]]
             /\ broker' = [t \in Tickets |->
                    IF t \in TicketsOf(r.reqs) /\ send_ok[t]
                    THEN "closed" ELSE broker[t]]
             /\ everReached' =
                    {t \in TicketsOf(positions.positions) :
                        \/ t \in everReached
                        \/ ProfitOf(positions.positions, t)
                               >= TRAILING_ACTIVATION_USD}
             /\ scen' = [t \in Tickets |->
                            ScenStep(scen[t], positions.positions, r.reqs, t)]

\* the tickets for which a report makes PnLManager call close_position
Requested(positions) ==
    TicketsOf(MainLoop(positions, Cleanup(peak_profits, positions)).reqs)

----------------------------------------------------------------------------
(* Steps of the live program *)

OpenTickets == {t \in Tickets : broker[t] = "open"}

\* the tuple mt5.positions_get() returns: the open positions by ticket
RECURSIVE PositionsTuple(_, _)
PositionsTuple(tickets, profit) ==
    IF tickets = {} THEN <<>>
    ELSE LET t == CHOOSE x \in tickets : \A y \in tickets : x <= y
         IN  <<[ticket |-> t, profit |-> profit[t]]>>
                 \o PositionsTuple(tickets \ {t}, profit)

\* the gateway opens a position (TradeManager.place_order succeeded)
OpenPosition ==
    /\ program = "live"
    /\ \E t \in Tickets :
          /\ broker[t] = "new"
          /\ \A u \in Tickets : u < t => broker[u] # "new"
          /\ broker' = [broker EXCEPT ![t] = "open"]
    /\ UNCHANGED <<peak_profits, TAKE_PROFIT, report, closeReqs,
                   everReached, scen>>
    /\ UNCHANGED <<program, pc, data_rows, cycle_symbol, cycleVars, ledgerVars,
                   watchVars, mainVars>>

\* a cycle in which the position report is a tuple
CheckReport ==
    /\ program = "live"
    /\ \E profit \in [OpenTickets -> Profits] :
          LET positions == [is_none |-> FALSE,
                            positions |-> PositionsTuple(OpenTickets, profit)]
          IN  \E send_ok \in [Requested(positions.positions) -> BOOLEAN] :
                 /\ report' = positions
                 /\ check_and_close_positions(positions, send_ok)
    /\ UNCHANGED TAKE_PROFIT
    /\ UNCHANGED <<program, pc, data_rows, cycle_symbol, cycleVars, ledgerVars,
                   watchVars, mainVars>>

CheckNoneKeepsTracker ==
    /\ program = "live"
    /\ report' = [is_none |-> TRUE, positions |-> <<>>]
    /\ closeReqs' = <<>>
    /\ UNCHANGED <<peak_profits, TAKE_PROFIT, broker, everReached, scen>>
    /\ UNCHANGED <<program, pc, data_rows, cycle_symbol, cycleVars, ledgerVars,
                   watchVars, mainVars>>

\* a cycle in which mt5.positions_get() returned None
CheckNone ==
    /\ program = "live"
    /\ LET positions == [is_none |-> TRUE, positions |-> <<>>]
       IN  /\ report' = positions
           /\ check_and_close_positions(positions, <<>>)
    /\ UNCHANGED TAKE_PROFIT
    /\ UNCHANGED <<program, pc, data_rows, cycle_symbol, cycleVars, ledgerVars,
                   watchVars, mainVars>>

----------------------------------------------------------------------------
(* core/symbol_data.py : SymbolData, and backtester.py : MockSymbolData    *)
(*                                                                         *)
(* A DataFrame is a record: kind "none" models None, tick_volume tells     *)
(* whether the column is there, bars are the rows.  A VWAP value is kept   *)
(* as the exact quotient num / den it is computed from; nan marks a NaN.   *)

Impls == {"SymbolData", "MockSymbolData"}

Bar(high, low, close, tick_volume) ==
    [high |-> high, low |-> low, close |-> close, tick_volume |-> tick_volume]

Flat == Bar(102, 98, 100, 10)
Up == Bar(103, 99, 101, 10)
Down == Bar(101, 97, 99, 10)
Quiet == Bar(100, 100, 100, 0)
WatchBars == {Flat, Up, Down, Quiet}

Frame(bars) == [kind |-> "frame", tick_volume |-> TRUE, bars |-> bars]
NoFrame == [kind |-> "none", tick_volume |-> FALSE, bars |-> <<>>]
NoVolumeFrame(bars) == [kind |-> "frame", tick_volume |-> FALSE, bars |-> bars]

\* three times the typical price (high + low + close) / 3
TypicalPrice3(bar) == bar.high + bar.low + bar.close

\* df['TPV'].cumsum() up to row i, times three
RECURSIVE CumTPV(_, _)
CumTPV(bars, i) ==
    IF i = 0 THEN 0
    ELSE CumTPV(bars, i - 1) + TypicalPrice3(bars[i]) * bars[i].tick_volume

\* df['tick_volume'].cumsum() up to row i
RECURSIVE CumVolume(_, _)
CumVolume(bars, i) ==
    IF i = 0 THEN 0 ELSE CumVolume(bars, i - 1) + bars[i].tick_volume

NoArray == [status |-> "none", values |-> <<>>]
Pending == [status |-> "pending", values |-> <<>>]

\* CumTPV / CumVolume at one row.  SymbolData divides by the cumulative
\* volume as it is (symbol_data.py line 47): on zero that is 0/0 = NaN.
\* MockSymbolData divides by CumVolume.replace(0, nan) (backtester.py line
\* 91): the result is NaN without a division by zero.
Quotient(impl, tpv, vol) ==
    [num |-> tpv, den |-> 3 * vol, nan |-> vol = 0,
     zero_div |-> vol = 0 /\ impl = "SymbolData"]

\* the early return: symbol_data.py line 33, backtester.py line 86
VwapUnavailable(impl, frame) ==
    \/ ~ frame.tick_volume
    \/ Len(frame.bars) = 0
    \/ /\ impl = "MockSymbolData"
       /\ CumVolume(frame.bars, Len(frame.bars)) = 0

FlatPrice(impl, frame) ==
    [status |-> "array",
     values |-> [i \in 1..Len(frame.bars) |->
                    Quotient(impl, TypicalPrice3(frame.bars[i]), 1)]]

\* SymbolData.calculate_vwap (symbol_data.py lines 31-49) and
\* MockSymbolData.calculate_vwap (backtester.py lines 85-92)
calculate_vwap(impl, frame) ==
    IF VwapUnavailable(impl, frame) THEN NoArray
    ELSE [status |-> "array",
          values |-> [i \in 1..Len(frame.bars) |->
                         Quotient(impl, CumTPV(frame.bars, i),
                                  CumVolume(frame.bars, i))]]

\* comparisons of floats held as quotients; every comparison with NaN is
\* false
Rat(price) == [num |-> price, den |-> 1, nan |-> FALSE, zero_div |-> FALSE]
Gt(x, y) == ~ x.nan /\ ~ y.nan /\ x.num * y.den > y.num * x.den
Lt(x, y) == Gt(y, x)
Eq(x, y) == ~ x.nan /\ ~ y.nan /\ x.num * y.den = y.num * x.den
Le(x, y) == ~ x.nan /\ ~ y.nan /\ x.num * y.den <= y.num * x.den
Ge(x, y) == Le(y, x)

LOOKBACK_PERIOD == 50

TailBars(bars, n) == SubSeq(bars, Max(1, Len(bars) - n + 1), Len(bars))
MinLow(bars) ==
    CHOOSE m \in {bars[i].low : i \in 1..Len(bars)} :
        \A i \in 1..Len(bars) : m <= bars[i].low
MaxHigh(bars) ==
    CHOOSE m \in {bars[i].high : i \in 1..Len(bars)} :
        \A i \in 1..Len(bars) : m >= bars[i].high

\* SymbolData.calculate_support_resistance (symbol_data.py lines 60-70) and
\* MockSymbolData.calculate_support_resistance (backtester.py lines 94-100)
calculate_support_resistance(impl, bars) ==
    IF impl = "SymbolData"
    THEN IF Len(bars) < 5 THEN [support |-> 0, resistance |-> 0]
         ELSE [support |-> MinLow(TailBars(bars, 20)),
               resistance |-> MaxHigh(TailBars(bars, 20))]
    ELSE IF Len(bars) < LOOKBACK_PERIOD
         THEN [support |-> IF bars # <<>> THEN MinLow(bars) ELSE 0,
               resistance |-> IF bars # <<>> THEN MaxHigh(bars) ELSE 0]
         ELSE [support |-> MinLow(TailBars(bars, LOOKBACK_PERIOD)),
               resistance |-> MaxHigh(TailBars(bars, LOOKBACK_PERIOD))]

----------------------------------------------------------------------------
(* market_watch/global_vwap_watch.py : GlobalVwapWatch.analyze_market      *)
(*                                                                         *)
(* An optional value is a sequence: <<>> is None, <<v>> is the value v.    *)

vwap_lookback == 10

LastClose(frame) == frame.bars[Len(frame.bars)].close

NoState ==
    [status |-> "pending", trend |-> "", bias |-> "", confirmation |-> "",
     vwap |-> <<>>, current_price |-> <<>>, support |-> <<>>,
     resistance |-> <<>>]

\* lines 38 and 43: the state returned when data is missing
ErrorState(current_price) ==
    [status |-> "done", trend |-> "ERROR", bias |-> "",
     confirmation |-> "NEUTRAL", vwap |-> <<>>,
     current_price |-> current_price, support |-> <<>>, resistance |-> <<>>]

ErrorWithoutPrice(frame) == ErrorState(<<>>)

\* line 43: the VWAP is unavailable, the price is the window's last close
VwapErrorState(frame) == ErrorState(<<LastClose(frame)>>)

\* lines 49-61: vwap[-1] - vwap[-vwap_lookback]; of a sequence
\* 1..n, [-1] is element n and [-vwap_lookback] is element n - vwap_lookback + 1
Trend(vwap) ==
    IF Len(vwap) > vwap_lookback
    THEN IF Gt(vwap[Len(vwap)],
               vwap[Len(vwap) - vwap_lookback + 1])
         THEN "UPTREND"
         ELSE IF Lt(vwap[Len(vwap)],
                    vwap[Len(vwap) - vwap_lookback + 1])
              THEN "DOWNTREND"
              ELSE "CONSOLIDATION"
    ELSE "CONSOLIDATION"

\* lines 64-67
Bias(current_price, current_vwap) ==
    IF Gt(Rat(current_price), current_vwap) THEN "BULLISH"
    ELSE IF Lt(Rat(current_price), current_vwap) THEN "BEARISH"
    ELSE "NEUTRAL"

WeakBeforeRange(trend, bias, current_price, support, resistance) ==
    IF trend = "UPTREND" /\ bias = "BULLISH" THEN "STRONG_BUY"
    ELSE IF trend = "DOWNTREND" /\ bias = "BEARISH" THEN "STRONG_SELL"
    ELSE IF bias # "NEUTRAL"
         THEN IF bias = "BULLISH" THEN "WEAK_BUY" ELSE "WEAK_SELL"
    ELSE "NEUTRAL"

\* lines 75-88
Confirmation(trend, bias, current_price, support, resistance) ==
    IF trend = "UPTREND" /\ bias = "BULLISH" THEN "STRONG_BUY"
    ELSE IF trend = "DOWNTREND" /\ bias = "BEARISH" THEN "STRONG_SELL"
    ELSE IF /\ trend = "CONSOLIDATION"
            /\ (current_price < support \/ current_price > resistance)
         THEN "NEUTRAL"
    ELSE IF bias # "NEUTRAL"
         THEN IF bias = "BULLISH" THEN "WEAK_BUY" ELSE "WEAK_SELL"
    ELSE "NEUTRAL"

\* lines 35-102; frame is what self.symbol_data.get_ohlc_bars returned
analyze_market(impl, frame) ==
    IF frame.kind = "none" \/ frame.bars = <<>> THEN ErrorState(<<>>)
    ELSE LET array == calculate_vwap(impl, frame)
         IN  IF array.status = "none" \/ Len(array.values) = 0
             THEN VwapErrorState(frame)
             ELSE LET current_price == LastClose(frame)
                      current_vwap == array.values[Len(array.values)]
                      trend == Trend(array.values)
                      bias == Bias(current_price, current_vwap)
                      sr_levels == calculate_support_resistance(impl, frame.bars)
                  IN  [status |-> "done", trend |-> trend, bias |-> bias,
                       confirmation |->
                           Confirmation(trend, bias, current_price,
                                        sr_levels.support, sr_levels.resistance),
                       vwap |-> <<current_vwap>>,
                       current_price |-> <<current_price>>,
                       support |-> <<sr_levels.support>>,
                       resistance |-> <<sr_levels.resistance>>]

----------------------------------------------------------------------------
(* strategies/vwap_trend_continuation.py ("strategies") and                *)
(* vwap_trend_continuation.py ("toplevel") : check_for_entry               *)

Variants == {"strategies", "toplevel"}

Position(symbol, magic) == [symbol |-> symbol, magic |-> magic]

NoPositionCheck(variant, symbol, positions) == FALSE

\* strategies line 29: any position at all; toplevel line 38: a position
\* with the strategy's magic on the symbol
HasOpenPosition(variant, symbol, positions) ==
    IF variant = "strategies" THEN positions # <<>>
    ELSE \E i \in 1..Len(positions) :
            positions[i].magic = STRATEGY_MAGIC /\ positions[i].symbol = symbol

\* the bars the strategy asks for: strategies line 41 (count 2), toplevel
\* line 50 (count 3)
BarsWanted(variant) == IF variant = "strategies" THEN 2 ELSE 3

TouchWithoutTrend(state, fetched) ==
    IF state.vwap = <<>> \/ state.current_price = <<>>
    THEN "none"
    ELSE IF fetched.kind = "none" THEN "raise"
    ELSE IF Len(fetched.bars) < 2 THEN "none"
    ELSE LET last_bar == fetched.bars[Len(fetched.bars)]
             vwap == state.vwap[1]
             current_price == Rat(state.current_price[1])
         IN  IF Le(Rat(last_bar.low), vwap) /\ Gt(current_price, vwap)
             THEN "buy"
             ELSE IF Ge(Rat(last_bar.high), vwap) /\ Lt(current_price, vwap)
                  THEN "sell"
                  ELSE "none"

\* strategies lines 32-70
StrategiesSignal(state, fetched) ==
    IF state.vwap = <<>> \/ state.current_price = <<>>
    THEN "none"
    ELSE IF fetched.kind = "none" THEN "raise"
    ELSE IF Len(fetched.bars) < 2 THEN "none"
    ELSE LET last_bar == fetched.bars[Len(fetched.bars)]
             vwap == state.vwap[1]
             current_price == Rat(state.current_price[1])
         IN  IF /\ state.trend = "UPTREND"
                /\ Le(Rat(last_bar.low), vwap)
                /\ Gt(current_price, vwap)
             THEN "buy"
             ELSE IF /\ state.trend = "DOWNTREND"
                     /\ Ge(Rat(last_bar.high), vwap)
                     /\ Lt(current_price, vwap)
                  THEN "sell"
                  ELSE "none"

\* toplevel lines 62 and 68, the two comparisons after the tests of the
\* confirmation and the trend: `prev_close <op> vwap and current_price
\* <op> vwap`, evaluated left to right.  vwap and current_price come from
\* market_state.get and are not tested for None (lines 33-34): an order
\* comparison of a float with None raises TypeError.  below is TRUE for
\* `prev_close < vwap and current_price > vwap`
Bounce(prev_close, state, below) ==
    IF state.vwap = <<>> THEN "raise"
    ELSE IF ~ (IF below THEN Lt(prev_close, state.vwap[1])
               ELSE Gt(prev_close, state.vwap[1]))
         THEN "no"
    ELSE IF state.current_price = <<>> THEN "raise"
    ELSE IF (IF below THEN Gt(Rat(state.current_price[1]), state.vwap[1])
             ELSE Lt(Rat(state.current_price[1]), state.vwap[1]))
         THEN "yes"
    ELSE "no"

\* toplevel lines 41-71
ToplevelSignal(state, fetched) ==
    LET is_buy_allowed == state.confirmation \in {"STRONG_BUY", "WEAK_BUY"}
        is_sell_allowed == state.confirmation \in {"STRONG_SELL", "WEAK_SELL"}
    IN  IF ~ (is_buy_allowed \/ is_sell_allowed) THEN "none"
        ELSE IF fetched.kind = "none" THEN "raise"
        ELSE IF Len(fetched.bars) < 3 THEN "none"
        ELSE LET prev_close == Rat(fetched.bars[Len(fetched.bars) - 1].close)
                 buy == IF is_buy_allowed /\ state.trend = "UPTREND"
                        THEN Bounce(prev_close, state, TRUE) ELSE "no"
                 sell == IF is_sell_allowed /\ state.trend = "DOWNTREND"
                         THEN Bounce(prev_close, state, FALSE) ELSE "no"
             IN  IF buy = "raise" THEN "raise"
                 ELSE IF buy = "yes" THEN "buy"
                 ELSE IF sell = "raise" THEN "raise"
                 ELSE IF sell = "yes" THEN "sell"
                 ELSE "none"

\* check_for_entry(symbol, market_state, open_positions); fetched is what
\* self.symbol_data.get_ohlc_bars returns to it
check_for_entry(variant, symbol, state, positions, fetched) ==
    IF variant = "strategies"
    THEN IF HasOpenPosition(variant, symbol, positions) THEN "none"
         ELSE StrategiesSignal(state, fetched)
    ELSE IF HasOpenPosition(variant, symbol, positions) THEN "none"
         ELSE ToplevelSignal(state, fetched)

----------------------------------------------------------------------------
(* Steps of the market-watch program: the indicator, the analysis and the  *)
(* strategy applied to one window of bars                                  *)

\* the windows: every sequence of at most MaxWindow bars, alone, after a
\* run of vwap_lookback - 1 flat bars, or before one
Fill(k) == [i \in 1..k |-> Flat]
ShortWindows == UNION {[1..k -> WatchBars] : k \in 0..MaxWindow}
Windows ==
    ShortWindows
        \cup {Fill(vwap_lookback - 1) \o w : w \in ShortWindows}
        \cup {w \o Fill(vwap_lookback - 1) : w \in ShortWindows}

Frames ==
    {Frame(w) : w \in Windows}
        \cup {NoVolumeFrame(<<Flat>>), NoVolumeFrame(<<Flat, Up>>), NoFrame}

EntrySymbol == "BTCUSD"

PositionTuples ==
    {<<>>,
     <<Position("BTCUSD", STRATEGY_MAGIC)>>,
     <<Position("BTCUSD", MT5_MAGIC_NUMBER), Position("BTCUSD", STRATEGY_MAGIC)>>,
     <<Position("ETHUSD", STRATEGY_MAGIC)>>}

\* what get_ohlc_bars can return to the strategy after the analysis of df:
\* nothing (None from SymbolData lines 19-21, 27-29; an empty DataFrame from
\* MockSymbolData lines 77, 83), the latest bars of the same data, or those
\* with one newer bar at the end
Fetched(count) ==
    {IF symbol_data = "SymbolData" THEN NoFrame ELSE Frame(<<>>)}
        \cup {Frame(TailBars(df.bars, count))}
        \cup {Frame(TailBars(df.bars, count - 1) \o <<b>>) : b \in WatchBars}

CalculateVwap ==
    /\ program = "watch"
    /\ df.kind = "frame"
    /\ vwap_array = Pending
    /\ vwap_array' = calculate_vwap(symbol_data, df)
    /\ UNCHANGED <<symbol_data, df, support_resistance, market_state,
                   entry_args, signal>>
    /\ UNCHANGED <<program, pc, data_rows, cycle_symbol, cycleVars, ledgerVars,
                   pnlVars, mainVars>>

\* self.symbol_data.calculate_support_resistance(df), on any DataFrame
CalculateSupportResistance ==
    /\ program = "watch"
    /\ df.kind = "frame"
    /\ support_resistance = <<>>
    /\ support_resistance' =
           <<calculate_support_resistance(symbol_data, df.bars)>>
    /\ UNCHANGED <<symbol_data, df, vwap_array, market_state, entry_args, signal>>
    /\ UNCHANGED <<program, pc, data_rows, cycle_symbol, cycleVars, ledgerVars,
                   pnlVars, mainVars>>

AnalyzeMarket ==
    /\ program = "watch"
    /\ vwap_array # Pending \/ df.kind = "none"
    /\ market_state = NoState
    /\ market_state' = analyze_market(symbol_data, df)
    /\ UNCHANGED <<symbol_data, df, vwap_array, support_resistance,
                   entry_args, signal>>
    /\ UNCHANGED <<program, pc, data_rows, cycle_symbol, cycleVars, ledgerVars,
                   pnlVars, mainVars>>

\* the market states check_for_entry is called with: the one analyze_market
\* returned, and, without positions, the same dict lacking its vwap or its
\* current price
EntryStates(positions) ==
    {market_state}
        \cup (IF positions = <<>>
              THEN {[market_state EXCEPT !.vwap = <<>>],
                    [market_state EXCEPT !.current_price = <<>>]}
              ELSE {})

CheckForEntry ==
    /\ program = "watch"
    /\ market_state # NoState
    /\ signal = "pending"
    /\ \E variant \in Variants, positions \in PositionTuples :
          \E fetched \in Fetched(BarsWanted(variant)),
             state \in EntryStates(positions) :
             /\ signal' = check_for_entry(variant, EntrySymbol, state,
                                          positions, fetched)
             /\ entry_args' = <<[variant |-> variant, positions |-> positions,
                                 fetched |-> fetched, state |-> state]>>
    /\ UNCHANGED <<symbol_data, df, vwap_array, support_resistance,
                   market_state>>
    /\ UNCHANGED <<program, pc, data_rows, cycle_symbol, cycleVars, ledgerVars,
                   pnlVars, mainVars>>

----------------------------------------------------------------------------
(* main.py : main_loop, with TradeManager.place_order                      *)
(* (core/trade_manager.py) and the trade log (persistence/trade_log.py)    *)
(* under it                                                                *)
(*                                                                         *)
(* loop_pc is the place main_loop has reached:                             *)
(*   "start"    before line 26                                             *)
(*   "cycle"    at `while True` (line 53), between two cycles              *)
(*   "symbol"   at the body of `for symbol in TRADING_SYMBOLS` (line 63)   *)
(*   "strategy" at strategy.check_for_entry (line 81)                      *)
(*   "order"    inside TradeManager.place_order, after mt5.order_send has  *)
(*              returned (line 66) and before the result is logged         *)
(*   "sleep"    at the loop timing (lines 84-89)                           *)
(*   "returned" main_loop returned at line 28 or 33                        *)
(*   "stopped"  main_loop left the try statement (lines 91-97)             *)

\* strategies (main.py lines 44-47)
LiveStrategies == <<"RsiMeanReversion", "AdaptiveVolatilityScalper">>

\* what mt5.order_send returns: None, a result with another retcode, or a
\* result with TRADE_RETCODE_DONE
GatewayResults == {"None", "REJECTED", "DONE"}

\* config/settings.py lines 28-36, and the list left empty
ConfiguredSymbols == <<"BTCUSD", "ETHUSD">>
SymbolLists == {<<>>, ConfiguredSymbols}

AnySymbols(symbols) == TRUE

\* line 26: `if not TRADING_SYMBOLS` is false
SymbolsConfigured(symbols) == symbols # <<>>

NoStop == <<>>
Stop(cause) == <<[cause |-> cause, at |-> loop_pc, cycles |-> cycles]>>

\* TradeManager.place_order from line 69 on, given what order_send returned:
\* log_trade_placement writes through TradeLog._log, whose open() or
\* writerow() raises when the file cannot be written (log_ok false); no
\* handler stands between it and the caller of place_order
trade_manager_place_order(result, log_ok) ==
    IF ~ log_ok THEN [raised |-> TRUE, ticket |-> <<>>]
    ELSE IF result = "DONE" THEN [raised |-> FALSE, ticket |-> <<"order">>]
    ELSE [raised |-> FALSE, ticket |-> <<>>]

\* the end of one strategy.check_for_entry call: the next strategy, the
\* next symbol, or the loop timing
NextInCycle ==
    IF loop_strategy < Len(LiveStrategies)
    THEN /\ loop_strategy' = loop_strategy + 1
         /\ loop_pc' = "strategy"
         /\ UNCHANGED symbol_idx
    ELSE /\ loop_strategy' = 0
         /\ IF symbol_idx < Len(TRADING_SYMBOLS)
            THEN symbol_idx' = symbol_idx + 1 /\ loop_pc' = "symbol"
            ELSE symbol_idx' = 0 /\ loop_pc' = "sleep"

\* lines 26-48
Startup ==
    /\ program = "main"
    /\ loop_pc = "start"
    /\ IF ~ SymbolsConfigured(TRADING_SYMBOLS)
       THEN /\ loop_pc' = "returned"
            /\ stop' = Stop("config")
            /\ UNCHANGED mt5_connection
       ELSE \E initialized \in BOOLEAN :
               IF initialized
               THEN /\ loop_pc' = "cycle"
                    /\ mt5_connection' = "up"
                    /\ UNCHANGED stop
               ELSE /\ loop_pc' = "returned"
                    /\ mt5_connection' = "failed"
                    /\ stop' = Stop("initialize")
    /\ UNCHANGED <<TRADING_SYMBOLS, cycles, symbol_idx, loop_strategy,
                   order_result, placed>>
    /\ UNCHANGED <<program, pc, data_rows, cycle_symbol, cycleVars, ledgerVars,
                   pnlVars, watchVars>>

\* lines 53-60: a cycle begins
CycleStart ==
    /\ program = "main"
    /\ loop_pc = "cycle"
    /\ cycles < MaxCycles
    /\ cycles' = cycles + 1
    /\ IF TRADING_SYMBOLS = <<>>
       THEN symbol_idx' = 0 /\ loop_pc' = "sleep"
       ELSE symbol_idx' = 1 /\ loop_pc' = "symbol"
    /\ UNCHANGED <<TRADING_SYMBOLS, mt5_connection, loop_strategy,
                   order_result, placed, stop>>
    /\ UNCHANGED <<program, pc, data_rows, cycle_symbol, cycleVars, ledgerVars,
                   pnlVars, watchVars>>

\* lines 63-76: the analysis of one symbol and the filter of its positions
ProcessSymbol ==
    /\ program = "main"
    /\ loop_pc = "symbol"
    /\ loop_pc' = "strategy"
    /\ loop_strategy' = 1
    /\ UNCHANGED <<TRADING_SYMBOLS, mt5_connection, cycles, symbol_idx,
                   order_result, placed, stop>>
    /\ UNCHANGED <<program, pc, data_rows, cycle_symbol, cycleVars, ledgerVars,
                   pnlVars, watchVars>>

\* line 81: check_for_entry returns without calling the gateway, or after a
\* place_order that returned None before order_send (trade_manager.py lines
\* 28-35, 46-48)
StrategyReturns ==
    /\ program = "main"
    /\ loop_pc = "strategy"
    /\ NextInCycle
    /\ UNCHANGED <<TRADING_SYMBOLS, mt5_connection, cycles, order_result,
                   placed, stop>>
    /\ UNCHANGED <<program, pc, data_rows, cycle_symbol, cycleVars, ledgerVars,
                   pnlVars, watchVars>>

\* line 81 into trade_manager.py lines 28-66: the strategy places an order
\* and mt5.order_send returns
SendOrder ==
    /\ program = "main"
    /\ loop_pc = "strategy"
    /\ \E result \in GatewayResults : order_result' = <<result>>
    /\ loop_pc' = "order"
    /\ UNCHANGED <<TRADING_SYMBOLS, mt5_connection, cycles, symbol_idx,
                   loop_strategy, placed, stop>>
    /\ UNCHANGED <<program, pc, data_rows, cycle_symbol, cycleVars, ledgerVars,
                   pnlVars, watchVars>>

\* trade_manager.py lines 69-79: the result is logged and place_order
\* returns; an exception of the log leaves place_order and the strategy and
\* reaches `except Exception` of main_loop (lines 93-97)
LogAndReturn ==
    /\ program = "main"
    /\ loop_pc = "order"
    /\ \E log_ok \in BOOLEAN :
          LET out == trade_manager_place_order(order_result[1], log_ok)
          IN  /\ placed' = <<[result |-> order_result[1], log_ok |-> log_ok,
                              raised |-> out.raised, ticket |-> out.ticket]>>
              /\ IF out.raised
                 THEN /\ loop_pc' = "stopped"
                      /\ stop' = Stop("Exception")
                      /\ mt5_connection' = "down"
                      /\ UNCHANGED <<symbol_idx, loop_strategy>>
                 ELSE /\ NextInCycle
                      /\ UNCHANGED <<stop, mt5_connection>>
    /\ order_result' = <<>>
    /\ UNCHANGED <<TRADING_SYMBOLS, cycles>>
    /\ UNCHANGED <<program, pc, data_rows, cycle_symbol, cycleVars, ledgerVars,
                   pnlVars, watchVars>>

\* lines 84-89
Sleep ==
    /\ program = "main"
    /\ loop_pc = "sleep"
    /\ loop_pc' = "cycle"
    /\ UNCHANGED <<TRADING_SYMBOLS, mt5_connection, cycles, symbol_idx,
                   loop_strategy, order_result, placed, stop>>
    /\ UNCHANGED <<program, pc, data_rows, cycle_symbol, cycleVars, ledgerVars,
                   pnlVars, watchVars>>

\* the places inside the try statement (lines 52-90)
InTry == {"cycle", "symbol", "strategy", "order", "sleep"}

\* lines 91-92, 95-97: KeyboardInterrupt is raised in the main thread
\* wherever it is when the signal arrives
Interrupt ==
    /\ program = "main"
    /\ loop_pc \in InTry
    /\ loop_pc' = "stopped"
    /\ stop' = Stop("KeyboardInterrupt")
    /\ mt5_connection' = "down"
    /\ UNCHANGED <<TRADING_SYMBOLS, cycles, symbol_idx, loop_strategy,
                   order_result, placed>>
    /\ UNCHANGED <<program, pc, data_rows, cycle_symbol, cycleVars, ledgerVars,
                   pnlVars, watchVars>>

----------------------------------------------------------------------------
InitLedger ==
    /\ pc = "close"
    /\ cycle_symbol = "BTCUSD"
    /\ strategy_idx = 0
    /\ current_idx \in (IF program = "fetch" THEN Cursors ELSE {0})
    /\ window = NoWindow
    /\ bar_count = 0
    /\ positions_for_symbol = <<>>
    /\ phases = <<>>
    /\ current_bar = NoBar
    /\ open_positions = <<>>
    /\ trades = <<>>
    /\ closed_trades_count = 0
    /\ lastOrder = <<>>
    /\ closedLog = <<>>

InitPnL ==
    /\ peak_profits = <<>>
    /\ broker = [t \in Tickets |-> "new"]
    /\ report = [is_none |-> TRUE, positions |-> <<>>]
    /\ closeReqs = <<>>
    /\ everReached = {}
    /\ scen = [t \in Tickets |-> [n |-> 0, out |-> <<>>]]

InitWatch ==
    /\ vwap_array = Pending
    /\ support_resistance = <<>>
    /\ market_state = NoState
    /\ entry_args = <<>>
    /\ signal = "pending"

InitMain ==
    /\ loop_pc = "start"
    /\ mt5_connection = "untouched"
    /\ cycles = 0
    /\ symbol_idx = 0
    /\ loop_strategy = 0
    /\ order_result = <<>>
    /\ placed = <<>>
    /\ stop = NoStop

\* Backtester.__init__ (backtester.py lines 106-110, 252-257) with its
\* thresholds, or PnLManager.__init__ (pnl_manager.py lines 18-28)
Init ==
    /\ program \in {"backtest", "live", "watch", "main", "fetch"}
    /\ InitLedger
    /\ InitPnL
    /\ InitWatch
    /\ InitMain
    /\ \/ /\ program = "backtest"
          /\ \E cfg \in LedgerConfigs :
                 tp_price_diff = cfg[1] /\ sl_price_diff = cfg[2]
          /\ TAKE_PROFIT = TAKE_PROFIT_USD
          /\ symbol_data = "MockSymbolData" /\ df = NoFrame
          /\ TRADING_SYMBOLS = ConfiguredSymbols
          /\ data_rows \in DataLengths
       \/ /\ program = "live"
          /\ tp_price_diff = TP_POINTS_FOR_SCALPING
          /\ sl_price_diff = SL_POINTS
          /\ TAKE_PROFIT \in TakeProfits
          /\ symbol_data = "SymbolData" /\ df = NoFrame
          /\ TRADING_SYMBOLS = ConfiguredSymbols
          /\ data_rows = MaxData
       \/ /\ program = "watch"
          /\ tp_price_diff = TP_POINTS_FOR_SCALPING
          /\ sl_price_diff = SL_POINTS
          /\ TAKE_PROFIT = TAKE_PROFIT_USD
          /\ symbol_data \in Impls /\ df \in Frames
          /\ TRADING_SYMBOLS = ConfiguredSymbols
          /\ data_rows = MaxData
       \/ /\ program = "main"
          /\ tp_price_diff = TP_POINTS_FOR_SCALPING
          /\ sl_price_diff = SL_POINTS
          /\ TAKE_PROFIT = TAKE_PROFIT_USD
          /\ symbol_data = "SymbolData" /\ df = NoFrame
          /\ TRADING_SYMBOLS \in SymbolLists
          /\ data_rows = MaxData
       \/ /\ program = "fetch"
          /\ tp_price_diff = TP_POINTS_FOR_SCALPING
          /\ sl_price_diff = SL_POINTS
          /\ TAKE_PROFIT = TAKE_PROFIT_USD
          /\ symbol_data = "MockSymbolData" /\ df = NoFrame
          /\ TRADING_SYMBOLS = ConfiguredSymbols
          /\ data_rows = MaxData

Next ==
    \/ CycleClose
    \/ CycleAnalyze
    \/ CycleEntry
    \/ CycleNoSignal
    \/ GetOhlcBars
    \/ OpenPosition
    \/ CheckReport
    \/ CheckNone
    \/ CalculateVwap
    \/ CalculateSupportResistance
    \/ AnalyzeMarket
    \/ CheckForEntry
    \/ Startup
    \/ CycleStart
    \/ ProcessSymbol
    \/ StrategyReturns
    \/ SendOrder
    \/ LogAndReturn
    \/ Sleep
    \/ Interrupt

Spec == Init /\ [][Next]_vars

\* One run of Backtester.run_backtest on its own, with the thresholds the
\* script configures (lines 252-257): a sequential program, so the step
\* that is enabled is taken
InitBacktest ==
    /\ Init
    /\ program = "backtest"
    /\ tp_price_diff = TP_POINTS_FOR_SCALPING

BacktestNext ==
    \/ CycleClose
    \/ CycleAnalyze
    \/ CycleEntry
    \/ CycleNoSignal

RunSpec == InitBacktest /\ [][BacktestNext]_vars /\ WF_vars(BacktestNext)

----------------------------------------------------------------------------
(* Properties of the backtest ledger *)

ClosedIds == {closedLog[i].id : i \in 1..Len(closedLog)}
NumCloses == Cardinality({i \in 1..Len(trades) : trades[i].kind = "Close"})

\* the profit of a position at a price: price minus entry for a long
\* (type 1), entry minus price for a short (type 0)
Profit(type, entry_price, price) ==
    IF type = 1 THEN price - entry_price ELSE entry_price - price

\* C1: the open-position list never holds two positions with the same
\* strategy tag (magic) and the same symbol.
C1_OnePositionPerTagAndSymbol ==
    \A i, j \in 1..Len(open_positions) :
        i # j => ~ /\ open_positions[i].magic = open_positions[j].magic
                   /\ open_positions[i].symbol = open_positions[j].symbol

\* an order for a tag and symbol that already hold a position was made and
\* left the ledger as it was
C1_Witness ==
    /\ lastOrder # <<>>
    /\ lastOrder[1].pair_open
    /\ lastOrder[1].untouched
    /\ Len(open_positions) >= 1

\* C2: place_order is rejected (open positions and trade log unchanged)
\* exactly when an open position with the same tag and the same symbol
\* exists; an order for a pair without an open position appends a position,
\* also when the tag holds a position on another symbol.
C2_RejectedIffSamePair ==
    (lastOrder # <<>> /\ lastOrder[1].bar_set) =>
        /\ lastOrder[1].untouched <=> lastOrder[1].pair_open
        /\ ~lastOrder[1].pair_open => lastOrder[1].appended

\* C8: a position is closed as take-profit at the first close-check of its
\* symbol at which its profit is at least the TP threshold: no open position
\* has survived such a check, every close at such a profit is a TP close, the
\* check before a close was below the threshold, and no close happens at a
\* profit strictly between the SL and TP thresholds.
C8_TakeProfitAtFirstHit ==
    /\ \A i \in 1..Len(open_positions) :
          LET p == open_positions[i]
          IN  p.last_price # <<>> =>
                 Profit(p.type, p.entry_price, p.last_price[1]) < tp_price_diff
    /\ \A i \in 1..Len(closedLog) :
          LET c == closedLog[i]
              profit == Profit(c.type, c.entry_price, c.close_price)
          IN  /\ (profit >= tp_price_diff) <=> (c.reason = "TP")
              /\ ~(sl_price_diff < profit /\ profit < tp_price_diff)
              /\ c.last_price # <<>> =>
                    Profit(c.type, c.entry_price, c.last_price[1]) < tp_price_diff

\* long at 100 with TP 1.5 and SL -10: open after the check at profit 0.5,
\* closed as TP by the check at profit 1.6
C8_Witness ==
    /\ tp_price_diff = TP_POINTS_FOR_SCALPING
    /\ sl_price_diff = SL_POINTS
    /\ \E i \in 1..Len(closedLog) :
          /\ closedLog[i].type = 1
          /\ closedLog[i].entry_price = 1000
          /\ closedLog[i].last_price = <<1005>>
          /\ closedLog[i].close_price = 1016
          /\ closedLog[i].reason = "TP"

\* C9: a position is closed at most once and never returns to the open
\* set: the closed positions are distinct, none of them is open (neither by
\* its entry record nor by the values place_order stored for it), each close
\* appended one Close record and added one to closed_trades_count, and each
\* removed exactly one position from open_positions.
C9_ClosedOnceNeverReopened ==
    /\ Cardinality(ClosedIds) = Len(closedLog)
    /\ \A i \in 1..Len(open_positions) :
          /\ open_positions[i].id \notin ClosedIds
          /\ \A j \in 1..Len(closedLog) :
                ~ /\ open_positions[i].symbol = closedLog[j].symbol
                  /\ open_positions[i].magic = closedLog[j].magic
                  /\ open_positions[i].type = closedLog[j].type
                  /\ open_positions[i].entry_price = closedLog[j].entry_price
                  /\ open_positions[i].entry_time = closedLog[j].entry_time
    /\ closed_trades_count = Len(closedLog)
    /\ NumCloses = Len(closedLog)
    /\ Len(open_positions) + Len(closedLog) = NumEntries

\* a position was closed and its tag has since opened a new position on the
\* same symbol
C9_Witness ==
    \E i \in 1..Len(closedLog), j \in 1..Len(open_positions) :
        /\ open_positions[j].magic = closedLog[i].magic
        /\ open_positions[j].symbol = closedLog[i].symbol

----------------------------------------------------------------------------
(* Properties of PnLManager *)

Reported == IF report.is_none THEN {} ELSE TicketsOf(report.positions)

\* C3: the peak held for a ticket never decreases from one call of
\* check_and_close_positions to the next.
C3_PeakNeverDecreases ==
    [][\A t \in DOMAIN peak_profits \cap DOMAIN peak_profits' :
          peak_profits'[t] >= peak_profits[t]]_vars

\* a reported position, not closed, whose peak is above its current profit
C3_Witness ==
    \E t \in Reported :
        /\ t \notin TicketsOf(closeReqs)
        /\ peak_profits[t] > ProfitOf(report.positions, t)

\* C4: after a call with a tuple of positions, every position of the tuple
\* has a peak, and the peak is at least its profit.
C4_PeakAtLeastProfit ==
    \A t \in Reported :
        /\ t \in DOMAIN peak_profits
        /\ peak_profits[t] >= ProfitOf(report.positions, t)

\* a position first reported with one profit and now reported with a higher
\* one, which is its new peak
C4_Witness ==
    \E t \in Reported :
        /\ scen[t].n = 2
        /\ peak_profits[t] = ProfitOf(report.positions, t)

\* C5: for a position on which neither take-profit nor stop-loss fires, a
\* trailing-stop close is issued if and only if its profit has at some step
\* so far reached TRAILING_ACTIVATION and its current profit is at most peak
\* minus TRAILING_STEP.
C5_TrailIffEverActivated ==
    \A t \in Reported :
        Outcome(closeReqs, t) \notin {"tp", "sl"} =>
            (Outcome(closeReqs, t) = "trail" <=>
                /\ t \in everReached
                /\ ProfitOf(report.positions, t)
                       <= peak_profits[t] - TRAILING_STEP_USD)

\* C6: a trailing-stop close is never issued where the profit has not
\* reached TRAILING_ACTIVATION or where the profit is above peak minus
\* TRAILING_STEP; with a take-profit above the observed range the profits
\* 0.5, 1.2, 1.5, 1.1 give no close at the first three steps and a trailing
\* close at the fourth.
C6_TrailOnlyWhenActivatedAndBelowLevel ==
    /\ \A i \in 1..Len(closeReqs) :
          closeReqs[i].reason = "trail" =>
              /\ closeReqs[i].ticket \in everReached
              /\ closeReqs[i].profit >= TRAILING_ACTIVATION_USD
              /\ closeReqs[i].profit
                     <= peak_profits[closeReqs[i].ticket] - TRAILING_STEP_USD
    /\ \A t \in Tickets :
          (TAKE_PROFIT > 15 /\ scen[t].n >= 0) =>
              scen[t].out = SubSeq(<<"none", "none", "none", "trail">>,
                                   1, scen[t].n)

\* the four observations of the scenario have been made
C6_Witness ==
    \E t \in Tickets : TAKE_PROFIT > 15 /\ scen[t].n = Len(Scenario)

\* C7: every position has its peak updated before the rules are applied, at
\* most one close is requested per position per call, a position at or above
\* the take-profit threshold is closed as take-profit whatever else holds,
\* and a stop-loss close is issued only below the take-profit threshold; the
\* backtest ledger applies take-profit before stop-loss in the same way.
C7_FixedRuleOrder ==
    /\ \A i, j \in 1..Len(closeReqs) :
          i # j => closeReqs[i].ticket # closeReqs[j].ticket
    /\ \A i \in 1..Len(closeReqs) :
          /\ closeReqs[i].ticket \in Reported
          /\ closeReqs[i].ticket \in DOMAIN peak_profits
          /\ peak_profits[closeReqs[i].ticket] >= closeReqs[i].profit
          /\ closeReqs[i].reason = "sl" =>
                /\ closeReqs[i].profit < TAKE_PROFIT
                /\ closeReqs[i].profit <= STOP_LOSS_USD
          /\ closeReqs[i].reason = "trail" =>
                /\ closeReqs[i].profit < TAKE_PROFIT
                /\ closeReqs[i].profit > STOP_LOSS_USD
    /\ \A t \in Reported :
          ProfitOf(report.positions, t) >= TAKE_PROFIT =>
              Outcome(closeReqs, t) = "tp"
    /\ \A i \in 1..Len(closedLog) :
          LET profit == Profit(closedLog[i].type, closedLog[i].entry_price,
                               closedLog[i].close_price)
          IN  /\ profit >= tp_price_diff => closedLog[i].reason = "TP"
              /\ closedLog[i].reason = "SL" =>
                    profit < tp_price_diff /\ profit <= sl_price_diff

\* a take-profit close of a position on which the trailing rule holds too
C7_Witness ==
    \E i \in 1..Len(closeReqs) :
        /\ closeReqs[i].reason = "tp"
        /\ closeReqs[i].profit >= TRAILING_ACTIVATION_USD
        /\ closeReqs[i].profit
               <= peak_profits[closeReqs[i].ticket] - TRAILING_STEP_USD

\* C10 as claimed: when the call returns, peak_profits holds no entry for a
\* ticket the call has closed.
C10_EntryDeletedByClosingCall ==
    \A i \in 1..Len(closeReqs) : closeReqs[i].ticket \notin DOMAIN peak_profits

\* C10 as amended: the entry of a ticket closed by a call is still held when
\* that call returns; an entry is deleted by the next call whose report is
\* None or no longer holds the ticket.
C10_EntryDeletedByNextCall ==
    [][/\ \A i \in 1..Len(closeReqs') :
             closeReqs'[i].ticket \in DOMAIN peak_profits'
       /\ \A t \in DOMAIN peak_profits :
             (report'.is_none \/ t \notin TicketsOf(report'.positions)) =>
                 t \notin DOMAIN peak_profits']_vars

\* a position closed by PnLManager, gone from the following report and from
\* peak_profits
C10_Witness ==
    /\ ~report.is_none
    /\ \E t \in Tickets : broker[t] = "closed" /\ t \notin DOMAIN peak_profits

----------------------------------------------------------------------------
(* Properties of the backtest step (Backtester._run_trade_cycle) *)

Steps == [i \in 1..Len(phases) |-> phases[i].step]
LastStep == IF phases = <<>> THEN "none" ELSE phases[Len(phases)].step

\* one phase may follow another within the step of one bar
MayFollow(p, q) ==
    \/ p.step = "close" /\ q.step = "analyze"
    \/ p.step = "analyze" /\ q.step = "strategy" /\ q.strategy = 1
    \/ /\ p.step = "strategy" /\ q.step = "strategy"
       /\ q.strategy = p.strategy + 1
    \/ /\ p.step = "strategy" /\ q.step = "order"
       /\ q.strategy = p.strategy

\* C11: the step of a bar runs close-checks, then market-state analysis,
\* then the strategies in list order, then the order placement, and in no
\* other order; in the trade log no close of a bar comes after an entry of
\* the same bar.
C11_PhasesInOrder ==
    /\ phases # <<>> => phases[1].step = "close"
    /\ \A a \in 1..(Len(phases) - 1) : MayFollow(phases[a], phases[a + 1])
    /\ pc = "analyze" => LastStep = "close"
    /\ pc = "entry" => LastStep \in {"analyze", "strategy"}
    /\ pc = "close" => LastStep \in {"none", "strategy", "order"}
    /\ \A a, b \in 1..Len(trades) :
          (a < b /\ trades[a].kind = "Entry" /\ trades[b].kind = "Close")
              => trades[a].time < trades[b].time

\* a bar on which a position is closed, both strategies are evaluated and
\* the second one's order is logged after the close
C11_Witness ==
    /\ Steps = <<"close", "analyze", "strategy", "strategy", "order">>
    /\ \E a, b \in 1..Len(trades) :
          /\ a < b
          /\ trades[a].kind = "Close" /\ trades[b].kind = "Entry"
          /\ trades[a].time = current_bar.name
          /\ trades[b].time = current_bar.name

\* C12: the window handed to the market-state analysis in the step of bar i
\* holds only rows with index at most i - 1.
C12_WindowBeforeBar ==
    (\E a \in 1..Len(phases) : phases[a].step = "analyze")
        => (NumRows(window) > 0
               => LastRow(window) <= BarIndex(current_bar.name) - 1)

\* the analysis of a bar has run on a full window that ends at row i - 1
C12_Witness ==
    /\ LastStep = "analyze"
    /\ current_bar.name > 1
    /\ LastRow(window) = BarIndex(current_bar.name) - 1
    /\ NumRows(window) = MARKET_WATCH_BAR_COUNT

\* C13: a position opened in the step of bar i has bar i's close as entry
\* price and bar i's timestamp as entry time, and the close-check of step i
\* compares against bar i's price.
C13_EntryAndCloseAtBar ==
    /\ \A a \in 1..Len(open_positions) :
          /\ open_positions[a].entry_time <= current_bar.name
          /\ open_positions[a].entry_time = current_bar.name
                 => open_positions[a].entry_price = current_bar.close
    /\ (lastOrder # <<>> /\ lastOrder[1].appended) =>
          /\ open_positions[Len(open_positions)].entry_time = current_bar.name
          /\ open_positions[Len(open_positions)].entry_price = current_bar.close
    /\ \A a \in 1..Len(trades) :
          trades[a].time = current_bar.name =>
              IF trades[a].kind = "Entry"
              THEN trades[a].price = current_bar.close
              ELSE trades[a].close = current_bar.close
    /\ \A a \in 1..Len(open_positions) :
          (/\ open_positions[a].symbol = cycle_symbol
           /\ open_positions[a].entry_time < current_bar.name)
              => open_positions[a].last_price = <<current_bar.close>>

\* a position is opened on a bar whose close differs from the close of the
\* bar before it, which an older position of the symbol survived
C13_Witness ==
    /\ lastOrder # <<>> /\ lastOrder[1].appended
    /\ Len(open_positions) = 2
    /\ open_positions[1].symbol = cycle_symbol
    /\ open_positions[1].entry_price # current_bar.close
    /\ open_positions[2].entry_price = current_bar.close
    /\ open_positions[2].entry_time = current_bar.name

\* C14: strategies are evaluated in list order and the evaluation stops at
\* the first signal: at most one order is placed and at most one position
\* is added per bar, and no strategy is evaluated after the one that
\* signalled.
C14_OneOrderPerBar ==
    /\ Cardinality({a \in 1..Len(phases) : phases[a].step = "order"}) <= 1
    /\ \A a \in 1..Len(phases) :
          phases[a].step = "order" => a = Len(phases)
    /\ \A a, b \in 1..Len(phases) :
          (a < b /\ phases[a].step = "strategy" /\ phases[b].step = "strategy")
              => phases[a].strategy < phases[b].strategy
    /\ \A a, b \in 1..Len(trades) :
          (a < b /\ trades[a].kind = "Entry" /\ trades[b].kind = "Entry")
              => trades[a].time # trades[b].time
    /\ \A a, b \in 1..Len(open_positions) :
          a < b => open_positions[a].entry_time # open_positions[b].entry_time

\* the first strategy signals, its order is accepted and the step ends
\* without the second strategy being evaluated
C14_Witness ==
    /\ Steps = <<"close", "analyze", "strategy", "order">>
    /\ pc = "close"
    /\ lastOrder # <<>> /\ lastOrder[1].appended
    /\ open_positions[Len(open_positions)].entry_time = current_bar.name

----------------------------------------------------------------------------
(* Properties of the strategy, the market watch and the indicator library *)

EntryArgs == entry_args[1]

\* the positions given to check_for_entry hold one with the strategy's own
\* magic on the evaluated symbol
OwnPositionGiven ==
    /\ entry_args # <<>>
    /\ \E i \in 1..Len(EntryArgs.positions) :
          /\ EntryArgs.positions[i].magic = STRATEGY_MAGIC
          /\ EntryArgs.positions[i].symbol = EntrySymbol

\* C15: check_for_entry returns no signal whenever the positions it is
\* given hold an open position with its own magic on the evaluated symbol,
\* whatever the market state.
C15_NoSignalWithOwnPosition ==
    (signal # "pending" /\ OwnPositionGiven) => signal = "none"

\* no signal with the own position given, in a market state and on bars
\* for which the same call without positions signals
C15_Witness ==
    /\ OwnPositionGiven
    /\ signal = "none"
    /\ EntryArgs.variant = "toplevel"
    /\ check_for_entry(EntryArgs.variant, EntrySymbol, EntryArgs.state, <<>>,
                       EntryArgs.fetched) \in {"buy", "sell"}

\* analyze_market has returned a state that is not the error state
Analysed == market_state.status = "done" /\ market_state.trend # "ERROR"

\* C16: the confirmation is STRONG_BUY iff UPTREND and BULLISH, STRONG_SELL
\* iff DOWNTREND and BEARISH; otherwise NEUTRAL when the trend is
\* CONSOLIDATION and the price is outside [support, resistance]; otherwise
\* WEAK_BUY for BULLISH and WEAK_SELL for BEARISH; otherwise NEUTRAL.  The
\* bias is BULLISH, BEARISH, NEUTRAL as the price is above, below, equal to
\* the last VWAP.
C16_ConfirmationFromTrendAndBias ==
    Analysed =>
        LET trend == market_state.trend
            bias == market_state.bias
            price == market_state.current_price[1]
            support == market_state.support[1]
            resistance == market_state.resistance[1]
            confirmation == market_state.confirmation
            strong_buy == trend = "UPTREND" /\ bias = "BULLISH"
            strong_sell == trend = "DOWNTREND" /\ bias = "BEARISH"
        IN  /\ confirmation = "STRONG_BUY" <=> strong_buy
            /\ confirmation = "STRONG_SELL" <=> strong_sell
            /\ ~ (strong_buy \/ strong_sell) =>
                  IF trend = "CONSOLIDATION"
                         /\ (price < support \/ price > resistance)
                  THEN confirmation = "NEUTRAL"
                  ELSE IF bias = "BULLISH" THEN confirmation = "WEAK_BUY"
                  ELSE IF bias = "BEARISH" THEN confirmation = "WEAK_SELL"
                  ELSE confirmation = "NEUTRAL"
            /\ Gt(Rat(price), market_state.vwap[1]) => bias = "BULLISH"
            /\ Lt(Rat(price), market_state.vwap[1]) => bias = "BEARISH"
            /\ Eq(Rat(price), market_state.vwap[1]) => bias = "NEUTRAL"

\* a consolidating market with the price above the VWAP and above the
\* resistance: the confirmation is NEUTRAL, not WEAK_BUY
C16_Witness ==
    /\ Analysed
    /\ market_state.trend = "CONSOLIDATION"
    /\ market_state.bias = "BULLISH"
    /\ market_state.current_price[1] > market_state.resistance[1]
    /\ market_state.confirmation = "NEUTRAL"

\* the trend of a VWAP series when its last value is compared with the
\* value vwap_lookback places before the last
TrendTenBack(vwap) ==
    IF Len(vwap) < vwap_lookback + 1 THEN "CONSOLIDATION"
    ELSE IF Gt(vwap[Len(vwap)], vwap[Len(vwap) - vwap_lookback])
         THEN "UPTREND"
    ELSE IF Lt(vwap[Len(vwap)], vwap[Len(vwap) - vwap_lookback])
         THEN "DOWNTREND"
    ELSE "CONSOLIDATION"

\* C17: the trend compares vwap[last] with vwap[last - 10]: UPTREND when the
\* difference is positive, DOWNTREND when it is negative, CONSOLIDATION when
\* it is zero or the series has fewer than 11 points.
C17_TrendComparesTenBack ==
    (Analysed /\ vwap_array.status = "array")
        => market_state.trend = TrendTenBack(vwap_array.values)

\* C18: analyze_market returns, without raising, trend ERROR, confirmation
\* NEUTRAL and no VWAP for an absent or empty window; when calculate_vwap
\* gives no series for a window with bars it returns the same with the
\* window's last close as current price.
C18_ErrorStateOnMissingData ==
    market_state.status = "done" =>
        /\ (df.kind = "none" \/ df.bars = <<>>) =>
              /\ market_state.trend = "ERROR"
              /\ market_state.confirmation = "NEUTRAL"
              /\ market_state.vwap = <<>>
        /\ (/\ df.kind = "frame" /\ df.bars # <<>>
            /\ vwap_array.status = "none") =>
              /\ market_state.trend = "ERROR"
              /\ market_state.confirmation = "NEUTRAL"
              /\ market_state.vwap = <<>>
              /\ market_state.current_price = <<df.bars[Len(df.bars)].close>>

\* the analysis of a window of two bars without volume, under
\* MockSymbolData, whose calculate_vwap returned None
C18_Witness ==
    /\ market_state.status = "done"
    /\ symbol_data = "MockSymbolData"
    /\ df.tick_volume /\ Len(df.bars) = 2
    /\ vwap_array.status = "none"
    /\ market_state.trend = "ERROR"
    /\ market_state.current_price = <<100>>

\* the sum of f over the indexes in S
RECURSIVE Sum(_, _)
Sum(f, S) ==
    IF S = {} THEN 0
    ELSE LET x == CHOOSE y \in S : TRUE IN f[x] + Sum(f, S \ {x})

\* three times the sum of typical price times volume, and the sum of the
\* volumes, over the rows 1..i
Weighted3(bars, i) ==
    Sum([j \in 1..i |-> TypicalPrice3(bars[j]) * bars[j].tick_volume], 1..i)
Volume(bars, i) == Sum([j \in 1..i |-> bars[j].tick_volume], 1..i)

\* the value v is the volume-weighted average of the typical prices of the
\* rows 1..i and lies between the least and the greatest of them
IsBoundedAverage(v, bars, i) ==
    /\ ~ v.nan
    /\ v.den > 0
    /\ v.num * 3 * Volume(bars, i) = Weighted3(bars, i) * v.den
    /\ \E j \in 1..i : TypicalPrice3(bars[j]) * v.den <= 3 * v.num
    /\ \E j \in 1..i : TypicalPrice3(bars[j]) * v.den >= 3 * v.num

\* calculate_vwap has been applied to a window with bars, a volume column
\* and a strictly positive total volume, and has just returned: the series
\* is examined before check_for_entry runs, which leaves it as it is
VwapOfTradedWindow ==
    /\ vwap_array.status # "pending"
    /\ signal = "pending"
    /\ df.tick_volume /\ df.bars # <<>>
    /\ Volume(df.bars, Len(df.bars)) > 0

\* C19 as stated: for a non-empty window with strictly positive total
\* volume the series has the window's length and every vwap[i] is the
\* weighted average of the typical prices up to i, within their bounds.
C19_EveryValueBoundedAverage ==
    VwapOfTradedWindow =>
        /\ vwap_array.status = "array"
        /\ Len(vwap_array.values) = Len(df.bars)
        /\ \A i \in 1..Len(df.bars) :
              IsBoundedAverage(vwap_array.values[i], df.bars, i)

\* C19 amended: the series has the window's length; vwap[i] is the bounded
\* weighted average at every index whose cumulative volume is positive,
\* and NaN at the indexes before the first traded bar.
C19_BoundedAverageWhereTraded ==
    VwapOfTradedWindow =>
        /\ vwap_array.status = "array"
        /\ Len(vwap_array.values) = Len(df.bars)
        /\ \A i \in 1..Len(df.bars) :
              IF Volume(df.bars, i) > 0
              THEN IsBoundedAverage(vwap_array.values[i], df.bars, i)
              ELSE vwap_array.values[i].nan

\* volumes 10, 10, 10 with typical prices 100, 101, 99 give 100, 100.5, 100
C19_Witness ==
    /\ df = Frame(<<Flat, Up, Down>>)
    /\ vwap_array.status = "array"
    /\ Len(vwap_array.values) = 3
    /\ Eq(vwap_array.values[1], Rat(100))
    /\ Eq(vwap_array.values[2], [Rat(201) EXCEPT !.den = 2])
    /\ Eq(vwap_array.values[3], Rat(100))

\* C20: calculate_vwap returns None whenever the window is empty or the
\* cumulative volume at the last index is zero, and never divides by a zero
\* cumulative volume, under SymbolData and under MockSymbolData.
C20_NoneOnZeroVolume ==
    (vwap_array.status # "pending" /\ df.tick_volume) =>
        /\ (df.bars = <<>> \/ Volume(df.bars, Len(df.bars)) = 0)
              => vwap_array.status = "none"
        /\ \A i \in 1..Len(vwap_array.values) :
              ~ vwap_array.values[i].zero_div

----------------------------------------------------------------------------
(* Properties of the support and resistance levels *)

\* the number of bars each implementation looks back over
Lookback(impl) == IF impl = "SymbolData" THEN 20 ELSE LOOKBACK_PERIOD

\* C21: calculate_support_resistance returns the minimum low and the maximum
\* high over the last `lookback` bars of the window, over the whole window
\* when it is shorter, and 0 and 0 for an empty window; so for a non-empty
\* window support <= resistance.
C21_LevelsOverLookback ==
    support_resistance # <<>> =>
        LET recent == TailBars(df.bars, Lookback(symbol_data))
            levels == support_resistance[1]
        IN  /\ df.bars = <<>> => levels = [support |-> 0, resistance |-> 0]
            /\ df.bars # <<>> =>
                  /\ levels.support = MinLow(recent)
                  /\ levels.resistance = MaxHigh(recent)
                  /\ levels.support <= levels.resistance

----------------------------------------------------------------------------
(* Properties of the gateway calls and of main_loop *)

\* the close requests of the last call that the gateway refused
FailedCloses == {closeReqs[i].ticket : i \in {j \in 1..Len(closeReqs) :
                                                 ~ closeReqs[j].done}}

\* a refused close leaves the position open and its peak-profit entry in
\* place
C22_Retained ==
    \A t \in FailedCloses : broker[t] = "open" /\ t \in DOMAIN peak_profits

\* after a refused close, a report that still holds the position finds the
\* entry with its value and asks for the close again when a rule holds
C22_Retry ==
    \A t \in FailedCloses :
        (~ report'.is_none /\ t \in TicketsOf(report'.positions)) =>
            LET current_profit == ProfitOf(report'.positions, t)
            IN  /\ t \in DOMAIN peak_profits'
                /\ peak_profits'[t] = Max(peak_profits[t], current_profit)
                /\ CloseRule(current_profit, peak_profits'[t]) # "none"
                       => \E i \in 1..Len(closeReqs') : closeReqs'[i].ticket = t

\* an order the gateway refused: place_order returns None and raises nothing
C22_NoTicket ==
    (placed # <<>> /\ placed[1].result # "DONE")
        => ~ placed[1].raised /\ placed[1].ticket = <<>>

\* C22: when the gateway refuses a close, PnLManager keeps the position's
\* peak-profit entry with its value and requests the close again on the next
\* cycle in which the position is reported and a close rule holds; when the
\* gateway refuses an order, place_order returns no ticket and raises no
\* exception.
C22_GatewayFailureLeavesState ==
    [][C22_Retained' /\ C22_Retry /\ C22_NoTicket']_vars

\* C23: a failure of the trade log while a placement is recorded does not
\* abort the trading logic: place_order still returns the gateway outcome
\* (the ticket when the order was done, None otherwise) and main_loop is not
\* stopped by it.
C23_LogFailureDoesNotAbort ==
    (placed # <<>> /\ ~ placed[1].log_ok) =>
        /\ ~ placed[1].raised
        /\ placed[1].ticket # <<>> <=> placed[1].result = "DONE"
        /\ stop # NoStop => stop[1].cause # "Exception"

\* the places of main_loop that lie between two cycles
BetweenCycles == {"cycle", "sleep"}

\* C24: an external interrupt stops main_loop only between cycles: when the
\* loop has stopped on an interrupt, no cycle is left partially executed and
\* no order call is left in flight.
C24_InterruptBetweenCycles ==
    (stop # NoStop /\ stop[1].cause = "KeyboardInterrupt") =>
        /\ stop[1].at \in BetweenCycles
        /\ order_result = <<>>

\* C25: with an empty symbol list main_loop returns at startup, before the
\* broker connection is initialised and before any cycle; the empty list
\* never stops a loop whose first cycle has begun.
C25_EmptySymbolListFatalAtStartup ==
    /\ (program = "main" /\ TRADING_SYMBOLS = <<>>) =>
          /\ loop_pc \in {"start", "returned"}
          /\ mt5_connection = "untouched"
          /\ cycles = 0
          /\ loop_pc = "returned" => stop # NoStop /\ stop[1].cause = "config"
    /\ (stop # NoStop /\ stop[1].cause = "config") =>
          /\ TRADING_SYMBOLS = <<>>
          /\ stop[1].at = "start"
          /\ stop[1].cycles = 0

\* main_loop has returned on the empty list
C25_Witness ==
    /\ program = "main"
    /\ TRADING_SYMBOLS = <<>>
    /\ loop_pc = "returned"
    /\ stop # NoStop /\ stop[1].cause = "config"
    /\ mt5_connection = "untouched"

----------------------------------------------------------------------------
(* Properties of the break-even evaluation *)

\* the positions of a report inside the break-even zone
InBreakEvenZone(positions) ==
    {t \in TicketsOf(positions) :
        Abs(ProfitOf(positions, t)) <= BREAKEVEN_THRESHOLD}

\* C26: the break-even evaluation is a no-op: a reported position whose
\* absolute profit is within the threshold and for which no take-profit,
\* stop-loss or trailing rule fires is not closed, its peak_profits entry is
\* the one the peak update left, and the gateway keeps it as it was.
C26_BreakEvenIsNoOp ==
    [][~ report'.is_none =>
          \A t \in InBreakEvenZone(report'.positions) :
              LET current_profit == ProfitOf(report'.positions, t)
                  current_peak == IF t \in DOMAIN peak_profits
                                  THEN Max(peak_profits[t], current_profit)
                                  ELSE current_profit
              IN  CloseRule(current_profit, current_peak) = "none" =>
                     /\ \A i \in 1..Len(closeReqs') : closeReqs'[i].ticket # t
                     /\ peak_profits'[t] = current_peak
                     /\ broker'[t] = broker[t]]_vars

\* a report with a position at profit 0.5, which no rule closes
C26_Witness ==
    /\ program = "live"
    /\ ~ report.is_none
    /\ InBreakEvenZone(report.positions) # {}
    /\ closeReqs = <<>>
    /\ \E t \in InBreakEvenZone(report.positions) :
          broker[t] = "open" /\ peak_profits[t] = BREAKEVEN_THRESHOLD

----------------------------------------------------------------------------
(* Properties of the bar window of the backtest *)

\* C27: at a cursor c >= 0 and for count >= 1 bars, get_ohlc_bars returns
\* the consecutive rows max(0, c - count + 1) .. c of the data, min(count,
\* c + 1) of them when c is inside the data, never more than count and none
\* after row c; at a negative cursor it returns an empty window.
C27_WindowEndsAtCursor ==
    (program = "fetch" /\ bar_count > 0) =>
        LET c == current_idx
            first == Max(0, c - bar_count + 1)
        IN  /\ c < 0 => NumRows(window) = 0
            /\ c >= 0 =>
                  /\ NumRows(window) <= bar_count
                  /\ NumRows(window) > 0 =>
                        /\ window.start = first
                        /\ LastRow(window) = Min(c, DataRows - 1)
                  /\ NumRows(window) = 0 => first >= DataRows
                  /\ c < DataRows =>
                        NumRows(window) = Min(bar_count, c + 1)

\* three bars asked at the second row of the data: a window of two rows
C27_Witness ==
    /\ program = "fetch"
    /\ current_idx = 1
    /\ bar_count = 3
    /\ window = [start |-> 0, stop |-> 2]

----------------------------------------------------------------------------
(* Properties of the entry signal *)

\* the call check_for_entry has answered
Answered == signal # "pending" /\ entry_args # <<>>

\* the bars the call fetched are fewer than the strategy's minimum
ShortLocalWindow == Len(EntryArgs.fetched.bars) < BarsWanted(EntryArgs.variant)

\* C28: check_for_entry returns no signal, without raising, whenever the
\* market state has no vwap or no current price or the local bar window is
\* shorter than the strategy's minimum (2 bars for strategies/, 3 for the
\* top-level variant), whatever the confirmation of the state.
C28_NoSignalOnMissingData ==
    (/\ Answered
     /\ \/ EntryArgs.state.vwap = <<>>
        \/ EntryArgs.state.current_price = <<>>
        \/ ShortLocalWindow)
        => signal = "none"

\* C29: when check_for_entry returns buy for a market state analyze_market
\* produced, the state has trend UPTREND and confirmation STRONG_BUY or
\* WEAK_BUY; when it returns sell, trend DOWNTREND and confirmation
\* STRONG_SELL or WEAK_SELL; in both strategy variants.
C29_SignalAgreesWithConfirmation ==
    (Answered /\ EntryArgs.state = market_state) =>
        /\ signal = "buy" =>
              /\ market_state.trend = "UPTREND"
              /\ market_state.confirmation \in {"STRONG_BUY", "WEAK_BUY"}
        /\ signal = "sell" =>
              /\ market_state.trend = "DOWNTREND"
              /\ market_state.confirmation \in {"STRONG_SELL", "WEAK_SELL"}

\* the strategies/ variant, which does not read the confirmation, has
\* signalled a sell
C29_Witness ==
    /\ Answered
    /\ EntryArgs.state = market_state
    /\ EntryArgs.variant = "strategies"
    /\ signal = "sell"
    /\ market_state.confirmation = "STRONG_SELL"

----------------------------------------------------------------------------
(* Properties of the backtest accounting *)

\* the counters of the summary (run_backtest lines 217-220) against the log
Accounting ==
    /\ closed_trades_count = NumCloses
    /\ \A i \in 1..Len(trades) :
          trades[i].kind = "Close" => trades[i].reason \in {"TP", "SL"}
    /\ NumEntries = closed_trades_count + Len(open_positions)

\* C30: at every point of a backtest run, and so in its summary, the
\* closed-trade total is the number of Close records of the trade log, every
\* Close record is either a take-profit (PROFIT) or a stop-loss (LOSS), and
\* the Entry records are as many as the closed trades plus the positions
\* still open; the log only grows, its earlier records unchanged.
C30_CountersMatchTheLog ==
    /\ [](program = "backtest" => Accounting)
    /\ [][/\ Len(trades') >= Len(trades)
          /\ SubSeq(trades', 1, Len(trades)) = trades]_vars

\* a run with two orders accepted, one position closed on its stop-loss
\* and one still open
C30_Witness ==
    /\ program = "backtest"
    /\ closed_trades_count = 1
    /\ \E i \in 1..Len(trades) :
          trades[i].kind = "Close" /\ trades[i].reason = "SL"
    /\ Len(open_positions) = 1
    /\ NumEntries = 2

----------------------------------------------------------------------------
(* Properties of the backtest step, continued *)

\* the step of the bar has collected the positions for its strategies
Handed == \E a \in 1..Len(phases) : phases[a].step = "analyze"

\* C31: in every backtest step the strategies are given the positions as
\* they are after that step's close-checks: no position closed in the step
\* is among them, an order is refused only for a position opened on an
\* earlier bar that is still open, and a Close record of a bar precedes the
\* Entry record of the same bar.
C31_StrategiesSeePositionsAfterClose ==
    /\ Handed =>
          \A a \in 1..Len(positions_for_symbol) :
              positions_for_symbol[a].id \notin ClosedIds
    /\ pc = "entry" =>
          /\ \A a \in 1..Len(positions_for_symbol) :
                 \E b \in 1..Len(open_positions) :
                     open_positions[b] = positions_for_symbol[a]
          /\ \A b \in 1..Len(open_positions) :
                 open_positions[b].symbol = cycle_symbol =>
                     \E a \in 1..Len(positions_for_symbol) :
                         positions_for_symbol[a] = open_positions[b]
    /\ lastOrder # <<>> =>
          (lastOrder[1].appended <=>
              ~ \E b \in 1..Len(open_positions) :
                    /\ open_positions[b].magic = lastOrder[1].magic
                    /\ open_positions[b].entry_time < current_bar.name)
    /\ \A a, b \in 1..Len(trades) :
          (a < b /\ trades[a].kind = "Entry" /\ trades[b].kind = "Close")
              => trades[a].time # trades[b].time

\* a position of the symbol is closed on a bar, the strategies of that bar
\* are given no position, and the order of the strategy that had opened it
\* is accepted on the same bar, logged after the close
C31_Witness ==
    /\ Handed
    /\ positions_for_symbol = <<>>
    /\ lastOrder # <<>> /\ lastOrder[1].appended
    /\ closedLog # <<>>
    /\ closedLog[Len(closedLog)].magic = lastOrder[1].magic
    /\ closedLog[Len(closedLog)].symbol = cycle_symbol
    /\ Len(trades) >= 3
    /\ trades[Len(trades) - 1].kind = "Close"
    /\ trades[Len(trades) - 1].time = current_bar.name
    /\ trades[Len(trades)].kind = "Entry"
    /\ trades[Len(trades)].time = current_bar.name

\* the positions a step adds to the history of closed positions
NewlyClosed == SubSeq(closedLog', Len(closedLog) + 1, Len(closedLog'))

\* C32: a position opened in the step of bar i is not closed in that step:
\* it is open for as long as bar i is the current bar, whichever bar is the
\* last one of the run, only the close-check that begins a step closes
\* positions, and the positions it closes were opened on earlier bars.
C32_OpenedPositionOutlivesItsStep ==
    /\ [](/\ \A a \in 1..Len(trades) :
               (trades[a].kind = "Entry" /\ trades[a].time = current_bar.name)
                   => /\ a \notin ClosedIds
                      /\ \E b \in 1..Len(open_positions) :
                             /\ open_positions[b].id = a
                             /\ open_positions[b].entry_time = current_bar.name
          /\ \A a, b \in 1..Len(trades) :
               (trades[a].kind = "Entry" /\ trades[b].kind = "Close" /\ a < b)
                   => trades[b].time >= trades[a].time + 1)
    /\ [][/\ pc # "close" =>
               /\ closedLog' = closedLog
               /\ Len(open_positions') >= Len(open_positions)
               /\ SubSeq(open_positions', 1, Len(open_positions))
                      = open_positions
          /\ \A a \in 1..Len(NewlyClosed) :
               NewlyClosed[a].entry_time < current_bar'.name]_vars

\* a position opened on the last bar is open when the run is over, and a
\* position opened on the bar before it was closed by the last bar's check
C32_Witness ==
    /\ current_bar.name = MaxBars
    /\ pc = "close"
    /\ lastOrder # <<>> /\ lastOrder[1].appended
    /\ open_positions[Len(open_positions)].entry_time = MaxBars
    /\ closedLog # <<>>
    /\ closedLog[Len(closedLog)].entry_time = MaxBars - 1

\* the row of the data the step at hand replays
CurrentRow == BarIndex(current_bar.name)

\* the cursor stands where the phase of the step wants it
Bracketed ==
    IF current_bar = NoBar
    THEN current_idx = 0 /\ pc = "close" /\ trades = <<>>
    ELSE /\ CurrentRow >= MARKET_WATCH_BAR_COUNT
         /\ CurrentRow <= DataRows - 1
         /\ pc = "analyze" => current_idx = CurrentRow - 1
         /\ Handed => window.stop = CurrentRow
         /\ pc = "entry" => current_idx = CurrentRow
         /\ pc = "close" => current_idx = CurrentRow - 1

\* when the run is over every row from MARKET_WATCH_BAR_COUNT on has been
\* replayed, and none if there is no such row
AllBarsVisited ==
    IF DataRows > MARKET_WATCH_BAR_COUNT
    THEN current_bar # NoBar /\ CurrentRow = DataRows - 1
    ELSE current_bar = NoBar /\ trades = <<>> /\ phases = <<>>

\* a step moves the cursor by one, or sets it for the next row, which is
\* the row after the one replayed last; orders are placed with the cursor
\* on the row of the bar
MovesInOrder ==
    /\ current_bar' # current_bar =>
          /\ BarIndex(current_bar'.name) =
                 (IF current_bar = NoBar THEN MARKET_WATCH_BAR_COUNT
                  ELSE CurrentRow + 1)
          /\ current_idx' = BarIndex(current_bar'.name) - 1
    /\ current_bar' = current_bar =>
          \/ current_idx' = current_idx
          \/ pc = "analyze" /\ current_idx' = current_idx + 1
          \/ pc = "entry" /\ pc' = "close" /\ current_idx' = current_idx - 1
    /\ Len(trades') > Len(trades) /\ pc = "entry" => current_idx = CurrentRow

\* C33: in the step of bar i the cursor is i - 1 for the close-checks and
\* the analysis, i for the strategies and the order, and i - 1 again when
\* the step returns, with or without an order; the steps replay the rows
\* from MARKET_WATCH_BAR_COUNT to the last one once each in increasing
\* order, and the run ends (without a step or a trade when the data has no
\* more than MARKET_WATCH_BAR_COUNT rows).
C33_CursorBracketedAndRunEnds ==
    /\ [](Bracketed /\ (RunIsOver => AllBarsVisited))
    /\ [][MovesInOrder]_vars
    /\ <>RunIsOver

\* the run is over after MaxBars steps, the last of which placed an order
\* and returned with the cursor on the row before its bar
C33_Witness ==
    /\ RunIsOver
    /\ DataRows = MARKET_WATCH_BAR_COUNT + MaxBars
    /\ current_bar.name = MaxBars
    /\ current_idx = DataRows - 2
    /\ lastOrder # <<>> /\ lastOrder[1].appended

----------------------------------------------------------------------------
(* Properties of the position manager, continued *)

\* the profits a position is reported with: those of the live program, the
\* activation level itself and a profit more than a step below it
Observations ==
    Profits \cup {TRAILING_ACTIVATION_USD,
                  TRAILING_ACTIVATION_USD - TRAILING_STEP_USD - 1}

ObservationSeqs == UNION {[1..n -> Observations] : n \in 1..MaxObservations}

\* the rule check_and_close_positions fires at each of the successive
\* reports obs[1], obs[2], ... of one position, which stays reported for as
\* long as the sequence lasts (a close request the gateway refuses leaves
\* it open)
RECURSIVE RulesFired(_, _)
RulesFired(obs, peaks) ==
    IF obs = <<>> THEN <<>>
    ELSE LET positions == <<[ticket |-> 1, profit |-> Head(obs)]>>
             r == MainLoop(positions, Cleanup(peaks, positions))
         IN  <<Outcome(r.reqs, 1)>> \o RulesFired(Tail(obs), r.peaks)

\* some sequence of reports makes the trailing rule fire
TrailCanFire ==
    \E obs \in ObservationSeqs :
        \E k \in 1..Len(obs) : RulesFired(obs, <<>>)[k] = "trail"

\* C34 as stated: with the configured TAKE_PROFIT_USD, equal to
\* TRAILING_ACTIVATION_USD, some sequence of profit observations makes
\* PnLManager close a position for the trailing stop.
C34_TrailingCanFireWithDefaults ==
    (program = "live" /\ TAKE_PROFIT = TAKE_PROFIT_USD) => TrailCanFire

\* C35: a call with positions = None issues no close request, closes
\* nothing and empties the peak-profit tracker, so in the next call that is
\* given a tuple every reported position starts again with its profit of
\* that call as its peak.
C35_NoneClearsTracker ==
    /\ []((program = "live" /\ report.is_none) =>
             (peak_profits = <<>> /\ closeReqs = <<>>))
    /\ [][/\ report'.is_none => broker' \in {broker} \cup
                                     {[broker EXCEPT ![t] = "open"] : t \in Tickets}
          /\ (report.is_none /\ ~ report'.is_none) =>
                \A t \in TicketsOf(report'.positions) :
                    peak_profits'[t] = ProfitOf(report'.positions, t)]_vars

\* a position that had reached the activation level is reported, after a
\* None report, with a profit below it, and that profit is its peak
C35_Witness ==
    /\ program = "live"
    /\ ~ report.is_none
    /\ \E t \in TicketsOf(report.positions) :
          /\ t \in everReached
          /\ ProfitOf(report.positions, t) < TRAILING_ACTIVATION_USD
          /\ peak_profits[t] = ProfitOf(report.positions, t)

\* the tickets of the positions given to the last call
ReportedTickets ==
    IF report.is_none THEN {} ELSE TicketsOf(report.positions)

\* C36: after every check_and_close_positions call the tickets held in
\* peak_profits are exactly the tickets of the positions given to that call,
\* none for None: no entry for a ticket absent from the report, an entry
\* for every reported ticket.
C36_TrackerHoldsReportedTickets ==
    program = "live" => DOMAIN peak_profits = ReportedTickets

\* a reported position is closed by the call, and its entry is held when
\* the call returns
C36_Witness ==
    /\ program = "live"
    /\ ReportedTickets # {}
    /\ DOMAIN peak_profits = ReportedTickets
    /\ \E t \in ReportedTickets : broker[t] = "closed"

====
